---- MODULE Spec2Model ----
(***************************************************************************)
(* Model of the Apache module of Phusion Passenger: the request hook       *)
(* Hooks::handleRequest (ext/apache2/Hooks.cpp), the DirectoryMapper it    *)
(* consults, the upload buffering, the use it makes of an ApplicationPool  *)
(* session, and the header payload built by Hooks::sendHeaders.            *)
(*                                                                         *)
(* Strings are tuples of one-character strings: "/a" is <<"/", "a">>.      *)
(***************************************************************************)
EXTENDS Integers, Sequences, FiniteSets

VARIABLES
    r,          \* request_rec: uri, filename, document root, body length
    config,     \* DirConfig of the request
    fs,         \* what the filesystem answers to the probes of this request
    mapper,     \* DirectoryMapper: baseURIKnown, baseURI, appType
    pc,         \* position of the thread inside handleRequest
    status,     \* value returned by handleRequest (or how it was left)
    response,   \* what was written to the client: content type, body, custom response
    client,     \* client body: bytes not yet read, blocks handed out so far
    uploadData, \* shared_ptr<TempFile> uploadData
    session,    \* the Session get() returned and who still references it
    sessLog,    \* the calls made on the session, in order
    pool,       \* what the dispatcher did with applicationPool: calls of get, outcome
    cleanups,   \* cleanups registered on r->pool
    fault,      \* the first I/O fault of the request: phase and kind
    hdr,        \* header table, payload and re-parsed fields (sendHeaders)
    lookup,     \* DirectoryMapper on its own: the last call and what it returned
    mts,        \* mapToStorage of the request: whether it ran and what it returned
    appPool,    \* ApplicationPool: workers, caps, restart stamps, clock
    threads,    \* the threads that call the pool: position, key, worker held
    events,     \* what the pool did so far: spawns, retirements, last eviction
    host        \* the static Hooks pointer, the Hooks objects, the pool of the child

vars == <<r, config, fs, mapper, pc, status, response, client, uploadData,
          session, sessLog, pool, cleanups, fault, hdr,
          lookup, mts, appPool, threads, events, host>>

\* the state handleRequest does not touch
extra == <<lookup, mts, appPool, threads, events, host>>

-----------------------------------------------------------------------------
(* Program constants *)

UPLOAD_ACCELERATION_THRESHOLD == 8192

BUF_SIZE == 32768

NULL == <<"NULL">>

NUL == "\\0"

-----------------------------------------------------------------------------
(* Bounds of the model *)

MaxPairs == 2

MaxStrLen == 1

\* calls made on one DirectoryMapper
MaxCalls == 2

\* the pool: largest cap, steps of the logical clock, workers ever spawned,
\* times restart.txt of a key is touched, and maxIdleSeconds in clock steps
MaxCap == 2

MaxClock == 6

MaxWorkers == 3

MaxTouches == 1

MaxIdle == 2

-----------------------------------------------------------------------------
(* Strings *)

Slash == <<"/">>

CharCode(c) ==
    CASE c = "." -> 46
      [] c = "/" -> 47
      [] c = "_" -> 95
      [] c = "a" -> 97
      [] c = "b" -> 98
      [] c = "w" -> 119
      [] OTHER -> 0

Min(a, b) == IF a < b THEN a ELSE b

\* std::string operator< : lexicographic by character code, a prefix first
RECURSIVE StrLess(_, _)
StrLess(s, t) ==
    IF t = <<>> THEN FALSE
    ELSE IF s = <<>> THEN TRUE
    ELSE IF CharCode(Head(s)) # CharCode(Head(t))
         THEN CharCode(Head(s)) < CharCode(Head(t))
         ELSE StrLess(Tail(s), Tail(t))

IsPrefix(p, s) == Len(p) <= Len(s) /\ SubSeq(s, 1, Len(p)) = p

-----------------------------------------------------------------------------
(* DirectoryMapper *)

ShouldAutoDetect(flag) == flag = "ENABLED" \/ flag = "UNSET"

\* the test of one configured base URI against the request URI
BaseMatches(uri, base) ==
    \/ base = Slash
    \/ (Len(uri) = Len(base) /\ uri = base)
    \/ (Len(uri) > Len(base) /\ IsPrefix(base, uri) /\ uri[Len(base) + 1] = "/")

\* a variant that walks the std::set from its end
FirstMatch_reverse(uri, bases) ==
    LET ms == {b \in bases : BaseMatches(uri, b)}
    IN  IF ms = {} THEN NULL
        ELSE CHOOSE b \in ms : \A c \in ms : c = b \/ StrLess(c, b)

\* the first base of a std::set<string>, iterated in sorted order, that matches
FirstMatch(uri, bases) ==
    LET ms == {b \in bases : BaseMatches(uri, b)}
    IN  IF ms = {} THEN NULL
        ELSE CHOOSE b \in ms : \A c \in ms : c = b \/ StrLess(b, c)

\* verifyRailsDir / verifyRackDir / verifyWSGIDir on the document root:
\* "yes", "no", or the error code of the FileSystemException they throw
Verify(f, type) ==
    IF f.probeError # "none" THEN f.probeError
    ELSE IF type \in f.markers THEN "yes" ELSE "no"

Known(base, type) == [baseURIKnown |-> TRUE, baseURI |-> base, appType |-> type]

Answer(m, ret, threw) == [m |-> m, ret |-> ret, threw |-> threw]

MapperNew == [baseURIKnown |-> FALSE, baseURI |-> NULL, appType |-> "NONE"]

\* a variant that does not remember that it found nothing
AutoDetect_forgetful(m, cfg, f) ==
    LET rails == IF ShouldAutoDetect(cfg.autoDetectRails) THEN Verify(f, "RAILS") ELSE "no"
        rack  == IF ShouldAutoDetect(cfg.autoDetectRack) THEN Verify(f, "RACK") ELSE "no"
        wsgi  == IF ShouldAutoDetect(cfg.autoDetectWSGI) THEN Verify(f, "WSGI") ELSE "no"
    IN  IF rails \notin {"yes", "no"} THEN Answer(m, NULL, rails)
        ELSE IF rails = "yes" THEN Answer(Known(Slash, "RAILS"), Slash, "none")
        ELSE IF rack \notin {"yes", "no"} THEN Answer(m, NULL, rack)
        ELSE IF rack = "yes" THEN Answer(Known(Slash, "RACK"), Slash, "none")
        ELSE IF wsgi \notin {"yes", "no"} THEN Answer(m, NULL, wsgi)
        ELSE IF wsgi = "yes" THEN Answer(Known(Slash, "WSGI"), Slash, "none")
        ELSE Answer(m, NULL, "none")

\* auto-detection on the document root, Rails, then Rack, then WSGI
AutoDetect(m, cfg, f) ==
    LET rails == IF ShouldAutoDetect(cfg.autoDetectRails) THEN Verify(f, "RAILS") ELSE "no"
        rack  == IF ShouldAutoDetect(cfg.autoDetectRack) THEN Verify(f, "RACK") ELSE "no"
        wsgi  == IF ShouldAutoDetect(cfg.autoDetectWSGI) THEN Verify(f, "WSGI") ELSE "no"
    IN  IF rails \notin {"yes", "no"} THEN Answer(m, NULL, rails)
        ELSE IF rails = "yes" THEN Answer(Known(Slash, "RAILS"), Slash, "none")
        ELSE IF rack \notin {"yes", "no"} THEN Answer(m, NULL, rack)
        ELSE IF rack = "yes" THEN Answer(Known(Slash, "RACK"), Slash, "none")
        ELSE IF wsgi \notin {"yes", "no"} THEN Answer(m, NULL, wsgi)
        ELSE IF wsgi = "yes" THEN Answer(Known(Slash, "WSGI"), Slash, "none")
        ELSE Answer([m EXCEPT !.baseURIKnown = TRUE], NULL, "none")

\* a variant that walks the Rack base URIs before the Rails ones
getBaseURI_rackFirst(m, req, cfg, f) ==
    IF m.baseURIKnown THEN Answer(m, m.baseURI, "none")
    ELSE IF Len(req.uri) = 0 \/ req.uri[1] # "/"
         THEN Answer([m EXCEPT !.baseURIKnown = TRUE], NULL, "none")
    ELSE IF FirstMatch(req.uri, cfg.rackBaseURIs) # NULL
         THEN Answer(Known(FirstMatch(req.uri, cfg.rackBaseURIs), "RACK"),
                     FirstMatch(req.uri, cfg.rackBaseURIs), "none")
    ELSE IF FirstMatch(req.uri, cfg.railsBaseURIs) # NULL
         THEN Answer(Known(FirstMatch(req.uri, cfg.railsBaseURIs), "RAILS"),
                     FirstMatch(req.uri, cfg.railsBaseURIs), "none")
    ELSE AutoDetect(m, cfg, f)

getBaseURI(m, req, cfg, f) ==
    IF m.baseURIKnown THEN Answer(m, m.baseURI, "none")
    ELSE IF Len(req.uri) = 0 \/ req.uri[1] # "/"
         THEN Answer([m EXCEPT !.baseURIKnown = TRUE], NULL, "none")
    ELSE IF FirstMatch(req.uri, cfg.railsBaseURIs) # NULL
         THEN Answer(Known(FirstMatch(req.uri, cfg.railsBaseURIs), "RAILS"),
                     FirstMatch(req.uri, cfg.railsBaseURIs), "none")
    ELSE IF FirstMatch(req.uri, cfg.rackBaseURIs) # NULL
         THEN Answer(Known(FirstMatch(req.uri, cfg.rackBaseURIs), "RACK"),
                     FirstMatch(req.uri, cfg.rackBaseURIs), "none")
    ELSE AutoDetect(m, cfg, f)

\* a variant without the test for an empty document root
PublicPath_unchecked(docRoot, base) ==
    (IF Len(docRoot) > 0 /\ docRoot[Len(docRoot)] = "/"
     THEN SubSeq(docRoot, 1, Len(docRoot) - 1)
     ELSE docRoot)
    \o (IF base # Slash THEN base ELSE <<>>)

\* a variant that keeps the trailing slash of the document root
PublicPath_keepSlash(docRoot, base) ==
    IF Len(docRoot) > 0
    THEN docRoot \o (IF base # Slash THEN base ELSE <<>>)
    ELSE <<>>

\* the path built from the document root and the base URI
PublicPath(docRoot, base) ==
    IF Len(docRoot) > 0
    THEN (IF docRoot[Len(docRoot)] = "/" THEN SubSeq(docRoot, 1, Len(docRoot) - 1)
                                         ELSE docRoot)
         \o (IF base # Slash THEN base ELSE <<>>)
    ELSE <<>>

getPublicDirectory(m, req, cfg, f) ==
    LET b == IF m.baseURIKnown THEN Answer(m, m.baseURI, "none")
                               ELSE getBaseURI(m, req, cfg, f)
    IN  IF b.threw # "none" THEN Answer(b.m, <<>>, b.threw)
        ELSE IF b.m.baseURI = NULL THEN Answer(b.m, <<>>, "none")
        ELSE Answer(b.m, PublicPath(req.docRoot, b.m.baseURI), "none")

getApplicationType(m, req, cfg, f) ==
    LET b == IF m.baseURIKnown THEN Answer(m, m.baseURI, "none")
                               ELSE getBaseURI(m, req, cfg, f)
    IN  Answer(b.m, b.m.appType, b.threw)

getApplicationTypeString(m, req, cfg, f) ==
    LET b == getApplicationType(m, req, cfg, f)
    IN  Answer(b.m,
               CASE b.ret = "RAILS" -> "rails"
                 [] b.ret = "RACK" -> "rack"
                 [] b.ret = "WSGI" -> "wsgi"
                 [] OTHER -> "NULL",
               b.threw)

\* fileExists(name): "yes", "no" or the error code it throws.  The names the
\* hooks ask about are r->filename as the server set it ("set") and the page
\* cache file mapToStorage derives from it ("html").
fileExists(f, name) == IF name = "html" THEN f.html ELSE f.file

-----------------------------------------------------------------------------
(* Hooks: reports and exception handling of handleRequest *)

Page(st, type, body, custom) ==
    [status |-> st, contentType |-> type, body |-> body, custom |-> custom]

NoResponse == [contentType |-> "", body |-> <<>>, custom |-> ""]

reportDocumentRootDeterminationError ==
    Page("OK", "text/html; charset=UTF-8",
         <<"<h1>Passenger error #1</h1>",
           "Cannot determine the document root for the current request.">>, "")

reportFileSystemError(code) ==
    Page("OK", "text/html; charset=UTF-8",
         <<"<h1>Passenger error #2</h1>", "An error occurred while trying to access">>
         \o (IF code = "EPERM"
             THEN <<"Apache doesn't have read permissions to that file.">>
             ELSE <<>>), "")

\* a variant that answers OK instead of 503
reportBusyException_ok ==
    Page("OK", "", <<>>,
         "This website is too busy right now.  Please try again later.")

reportBusyException ==
    Page("HTTP_SERVICE_UNAVAILABLE", "", <<>>,
         "This website is too busy right now.  Please try again later.")

\* the catch clauses around the body of handleRequest
\* a variant without the clause for thread_interrupted
CatchOuter_noInterrupt(kind) ==
    CASE kind \in {"SpawnException", "IOException", "SystemException"}
                                     -> "HTTP_INTERNAL_SERVER_ERROR"
      [] OTHER -> "escaped"

CatchOuter(kind) ==
    CASE kind = "thread_interrupted" -> "HTTP_INTERNAL_SERVER_ERROR"
      [] kind \in {"SpawnException", "IOException", "SystemException"}
                                     -> "HTTP_INTERNAL_SERVER_ERROR"
      [] OTHER -> "escaped"

\* a variant that tests hasErrorPage the wrong way round
CatchGet_inverted(outcome) ==
    CASE outcome = "SpawnException" ->
             Page("OK", "text/html; charset=utf-8", <<"errorPage">>, "")
      [] outcome = "SpawnException_page" ->
             Page("HTTP_INTERNAL_SERVER_ERROR", "", <<>>, "")
      [] outcome = "BusyException" -> reportBusyException
      [] OTHER -> Page(CatchOuter(outcome), "", <<>>, "")

\* the catch clauses around applicationPool->get
CatchGet(outcome) ==
    CASE outcome = "SpawnException_page" ->
             Page("OK", "text/html; charset=utf-8", <<"errorPage">>, "")
      [] outcome = "SpawnException" -> Page(CatchOuter(outcome), "", <<>>, "")
      [] outcome = "BusyException" -> reportBusyException
      [] OTHER -> Page(CatchOuter(outcome), "", <<>>, "")

\* what applicationPool->get may do: return a session or throw
GetOutcomes ==
    {"session", "SpawnException_page", "SpawnException", "BusyException",
     "IOException", "thread_interrupted"}

\* applicationPool->get in a child whose initChild did these calls: without
\* connect() the pointer is null and the call is undefined, the process dies
GetOutcomesOn(steps) == IF steps = <<>> THEN {"null_pointer"} ELSE GetOutcomes

\* what a call on the session may throw
SessionErrors == {"SystemException", "thread_interrupted"}

\* the compiled-in environments
DEFAULT_RAILS_ENV == "production"

DEFAULT_RACK_ENV == "production"

DEFAULT_WSGI_ENV == "production"

\* a variant that takes RailsEnv whatever the application type
SpawnOptions_railsEnv(m, req, cfg, f) ==
    [lowerPrivilege |-> TRUE,
     lowestUser |-> IF cfg.defaultUser # "NULL" THEN cfg.defaultUser ELSE "nobody",
     environment |-> IF cfg.railsEnv = "NULL" THEN DEFAULT_RAILS_ENV ELSE cfg.railsEnv,
     spawnMethod |-> IF cfg.spawnMethod = "SM_CONSERVATIVE" THEN "conservative"
                                                          ELSE "smart",
     appType |-> getApplicationTypeString(m, req, cfg, f).ret]

\* the arguments of applicationPool->get after the application root: lower
\* privilege, lowest user, environment, spawn method and application type
SpawnOptions(m, req, cfg, f) ==
    LET type == getApplicationType(m, req, cfg, f).ret
    IN  [lowerPrivilege |-> TRUE,
         lowestUser |-> IF cfg.defaultUser # "NULL" THEN cfg.defaultUser ELSE "nobody",
         environment |->
             IF type = "RAILS"
             THEN (IF cfg.railsEnv = "NULL" THEN DEFAULT_RAILS_ENV ELSE cfg.railsEnv)
             ELSE IF type = "RACK"
             THEN (IF cfg.rackEnv = "NULL" THEN DEFAULT_RACK_ENV ELSE cfg.rackEnv)
             ELSE DEFAULT_WSGI_ENV,
         spawnMethod |-> IF cfg.spawnMethod = "SM_CONSERVATIVE" THEN "conservative"
                                                              ELSE "smart",
         appType |-> getApplicationTypeString(m, req, cfg, f).ret]

ap_should_client_block(req) == req.contentLength > 0

\* a variant with the comparison against the threshold turned round
UploadAccelerated_below(req) ==
    ap_should_client_block(req) /\ req.contentLength < UPLOAD_ACCELERATION_THRESHOLD

\* a variant that also buffers a body of exactly the threshold
UploadAccelerated_atLeast(req) ==
    ap_should_client_block(req) /\ req.contentLength >= UPLOAD_ACCELERATION_THRESHOLD

\* the test that sends the body through a TempFile
UploadAccelerated(req) ==
    ap_should_client_block(req) /\ req.contentLength > UPLOAD_ACCELERATION_THRESHOLD

\* destruction of the local SessionPtr of handleRequest
DropLocal(s) ==
    IF s.state = "open" /\ ~s.container
    THEN [s EXCEPT !.state = "closed", !.local = FALSE]
    ELSE [s EXCEPT !.local = FALSE]

\* a variant that lets go of the pointer and leaves the file behind
DropUpload_keep(u) == [u EXCEPT !.ptr = FALSE]

\* destruction (or reset) of shared_ptr<TempFile> uploadData: the file is deleted
DropUpload(u) ==
    IF u.ptr THEN [u EXCEPT !.ptr = FALSE, !.deleted = @ + 1] ELSE u

\* control leaves the current step with the locals s (session) and u (uploadData)
Goto(next, s, u) ==
    /\ pc' = next
    /\ status' = status
    /\ session' = s
    /\ uploadData' = u

\* handleRequest returns st: its locals s and u are destroyed
ReturnWith(st, s, u) ==
    /\ pc' = "returned"
    /\ status' = st
    /\ session' = DropLocal(s)
    /\ uploadData' = DropUpload(u)

Return(st) == ReturnWith(st, session, uploadData)

\* an exception of this kind is thrown inside the body of handleRequest
Throw(kind) == Return(CatchOuter(kind))

\* an exception leaves handleRequest: thrown outside its try blocks, or rethrown
Escape == Return("escaped")

Respond(page) ==
    response' = [contentType |-> page.contentType, body |-> page.body,
                 custom |-> page.custom]

NoteFault(phase, kind) ==
    fault' = IF fault.phase = "none" THEN [phase |-> phase, kind |-> kind] ELSE fault

-----------------------------------------------------------------------------
(* Hooks::sendHeaders: the payload, and the splitter of the worker *)

RECURSIVE PairsPayload(_)
PairsPayload(ps) ==
    IF ps = <<>> THEN <<>>
    ELSE Head(ps)[1] \o <<NUL>> \o Head(ps)[2] \o <<NUL>> \o PairsPayload(Tail(ps))

\* the dummy header appended after the last pair
Sentinel == <<"_", NUL, "_", NUL>>

\* a variant without the dummy header
HeaderPayload_bare(ps) == PairsPayload(ps)

HeaderPayload(ps) == PairsPayload(ps) \o Sentinel

RECURSIVE SplitAll(_, _)
SplitAll(buf, cur) ==
    IF buf = <<>> THEN <<cur>>
    ELSE IF Head(buf) = NUL THEN <<cur>> \o SplitAll(Tail(buf), <<>>)
    ELSE SplitAll(Tail(buf), Append(cur, Head(buf)))

RECURSIVE DropTrailingEmpty(_)
DropTrailingEmpty(fields) ==
    IF fields # <<>> /\ fields[Len(fields)] = <<>>
    THEN DropTrailingEmpty(SubSeq(fields, 1, Len(fields) - 1))
    ELSE fields

\* String#split("\0") of the request handler: trailing empty fields are dropped
RubySplit(buf) == DropTrailingEmpty(SplitAll(buf, <<>>))

\* Hash[*fields]: consecutive fields taken as (key, value)
FieldPairs(fields) ==
    [i \in 1..(Len(fields) \div 2) |-> <<fields[2 * i - 1], fields[2 * i]>>]

-----------------------------------------------------------------------------
(* Inputs *)

Chars == {"a", "_"}

StringsUpTo(n) == UNION {[1..k -> Chars] : k \in 0..n}

HeaderTables ==
    UNION {[1..k -> StringsUpTo(MaxStrLen) \X StringsUpTo(MaxStrLen)] : k \in 0..MaxPairs}

Requests ==
    [uri : {<<>>, <<"/", "a">>},
     filename : {"NULL", "set"},
     docRoot : {<<>>, <<"/", "w", "/">>},
     contentLength : {0, 100, UPLOAD_ACCELERATION_THRESHOLD,
                      UPLOAD_ACCELERATION_THRESHOLD + 1, BUF_SIZE + BUF_SIZE},
     setupStatus : {"OK", "HTTP_LENGTH_REQUIRED"},
     method : {"M_POST"}]

Configs ==
    [railsBaseURIs : {{}, {<<"/", "a">>}},
     rackBaseURIs : {{}, {<<"/", "a">>}},
     autoDetectRails : {"UNSET", "DISABLED"},
     autoDetectRack : {"DISABLED"},
     autoDetectWSGI : {"ENABLED", "DISABLED"},
     allowModRewrite : {"UNSET"},
     defaultUser : {"NULL"},
     railsEnv : {"NULL"},
     rackEnv : {"NULL"},
     spawnMethod : {"SM_UNSET"}]

FileSystems ==
    [markers : {{}, {"RAILS"}, {"WSGI"}},
     probeError : {"none", "EPERM", "EIO"},
     file : {"yes", "no", "EPERM"},
     html : {"no"}]

NoUpload ==
    [ptr |-> FALSE, size |-> 0, pos |-> 0, eof |-> FALSE, intact |-> TRUE,
     created |-> 0, deleted |-> 0]

NoSession ==
    [state |-> "none", local |-> FALSE, container |-> FALSE,
     fromFile |-> 0, fromClient |-> 0]

\* no call of get() yet, so no arguments
NoOptions ==
    [lowerPrivilege |-> FALSE, lowestUser |-> "", environment |-> "",
     spawnMethod |-> "", appType |-> ""]

NoHeaders == [pairs |-> <<>>, buffer |-> <<>>, fields |-> <<>>, step |-> "idle"]

NoResult == [op |-> "none", ret |-> NULL, threw |-> "none", calls |-> 0]

NoMapping == [done |-> FALSE, ret |-> "none", forward |-> FALSE]

NoPool == [workers |-> {}]

NoThreads == <<>>

NoEvents == <<>>

\* the calls of initChild on the pool, in their order
PoolSetup == <<"connect", "detach", "setMax", "setMaxPerApp", "setMaxIdleTime">>

\* a child process in which init_module and init_child went through: the
\* pointer is set, its object lives, the pool is connected and configured
ReadyHost ==
    [hooks |-> 1, live |-> {1}, dead |-> {}, twice |-> {}, nextId |-> 2,
     cleanups |-> 1, inits |-> 1, ret |-> "OK", childInit |-> "done",
     steps |-> PoolSetup, usedDead |-> {}]

\* the parts of the state a run of another component leaves idle
IdleHost == host = ReadyHost
IdleMapper == lookup = NoResult
IdleStorage == mts = NoMapping
IdlePool == appPool = NoPool /\ threads = NoThreads /\ events = NoEvents

Fresh ==
    /\ mapper = MapperNew
    /\ status = "running"
    /\ response = NoResponse
    /\ uploadData = NoUpload
    /\ session = NoSession
    /\ sessLog = <<>>
    /\ pool = [getCalls |-> 0, outcome |-> "none", unreadAtGet |-> 0,
               options |-> NoOptions, ready |-> <<>>]
    /\ cleanups = [registered |-> FALSE, poolDestroyed |-> FALSE,
                   thrown |-> "none", result |-> "none"]
    /\ fault = [phase |-> "none", kind |-> "none"]

Init ==
    /\ r \in Requests
    /\ config \in Configs
    /\ fs \in FileSystems
    /\ client = [remaining |-> r.contentLength]
    /\ pc = "classify"
    /\ hdr = NoHeaders
    /\ Fresh
    /\ IdleMapper /\ IdleStorage /\ IdlePool /\ IdleHost

-----------------------------------------------------------------------------
(* Hooks::handleRequest, step by step *)

\* a variant that only looks at r->filename
NotForApplication_anyBase(base, name) == name = "NULL"

\* the first two tests of line 633: no base URI, or no filename
NotForApplication(base, name) == base = NULL \/ name = "NULL"

\* a variant that half-closes the writer before the body is sent
StepAfter_shutdownFirst(step, req) ==
    CASE step = "timeouts" -> "sendHeaders"
      [] step = "sendHeaders" -> "shutdownWriter"
      [] step = "shutdownWriter" ->
             (IF ap_should_client_block(req) THEN "sendBody" ELSE "relay")
      [] step = "sendBody" -> "relay"
      [] step = "relay" -> "register"
      [] OTHER -> "returned"

\* the order of the calls between get() and the return
StepAfter(step, req) ==
    CASE step = "timeouts" -> "sendHeaders"
      [] step = "sendHeaders" ->
             (IF ap_should_client_block(req) THEN "sendBody" ELSE "shutdownWriter")
      [] step = "sendBody" -> "shutdownWriter"
      [] step = "shutdownWriter" -> "relay"
      [] step = "relay" -> "register"
      [] OTHER -> "returned"

\* a variant that asks the pool again when it was busy
AfterGet_retry(outcome) ==
    IF outcome = "session" THEN "timeouts"
    ELSE IF outcome = "BusyException" THEN "acquire" ELSE "returned"

\* where control goes once get() has returned or thrown
AfterGet(outcome) == IF outcome = "session" THEN "timeouts" ELSE "returned"

\* a variant that takes whatever was received
UploadComplete_any(u, req) == TRUE

\* the length test that ends receiveRequestBody
UploadComplete(u, req) == u.size = req.contentLength

\* the table sendHeaders fills (the variables that depend on the request)
RequestHeaders(req, base) ==
    << <<<<"REQUEST_URI">>, req.uri>>, <<<<"QUERY_STRING">>, <<>>>> >>
    \o (IF base # Slash THEN << <<<<"SCRIPT_NAME">>, base>> >> ELSE <<>>)
    \o << <<<<"DOCUMENT_ROOT">>, req.docRoot>> >>

\* a variant that leaves the Container, and so the session, alive
ContainerCleanup_leak(s) == s

\* Container::cleanup: the Container and its SessionPtr are deleted
ContainerCleanup(s) ==
    [s EXCEPT !.container = FALSE,
              !.state = IF s.state = "open" /\ ~s.local THEN "closed" ELSE @]

\* what closing the session inside the cleanup may throw
CloseFaults == {"none", "thread_interrupted", "SystemException"}

\* the catch clauses of Container::cleanup and its return value
CleanupCatch(kind) ==
    IF kind \in {"none", "thread_interrupted", "SystemException"}
    THEN "APR_SUCCESS" ELSE "escaped"

Classify ==
    /\ pc = "classify"
    /\ LET a == getBaseURI(mapper, r, config, fs)
       IN  /\ mapper' = a.m
           /\ IF a.threw # "none" THEN Escape /\ NoteFault("classify", a.threw)
              ELSE IF NotForApplication(a.ret, r.filename)
                   THEN Return("DECLINED") /\ UNCHANGED fault
              ELSE IF fileExists(fs, r.filename) \notin {"yes", "no"}
                   THEN Escape /\ NoteFault("fileExists", fileExists(fs, r.filename))
              ELSE IF fileExists(fs, r.filename) = "yes"
                   THEN Return("DECLINED") /\ UNCHANGED fault
              ELSE Goto("publicDir", session, uploadData) /\ UNCHANGED fault
    /\ UNCHANGED <<r, config, fs, response, client, sessLog, pool, cleanups, hdr>>
    /\ UNCHANGED extra

CheckPublicDirectory ==
    /\ pc = "publicDir"
    /\ LET a == getPublicDirectory(mapper, r, config, fs)
       IN  /\ mapper' = a.m
           /\ IF a.threw # "none"
              THEN /\ Respond(reportFileSystemError(a.threw))
                   /\ Return(reportFileSystemError(a.threw).status)
                   /\ NoteFault("classify", a.threw)
              ELSE IF a.ret = <<>>
              THEN /\ Respond(reportDocumentRootDeterminationError)
                   /\ Return(reportDocumentRootDeterminationError.status)
                   /\ UNCHANGED fault
              ELSE /\ Goto("setup", session, uploadData)
                   /\ UNCHANGED <<response, fault>>
    /\ UNCHANGED <<r, config, fs, client, sessLog, pool, cleanups, hdr>>
    /\ UNCHANGED extra

SetupClientBlock ==
    /\ pc = "setup"
    /\ IF r.setupStatus # "OK" THEN Return(r.setupStatus)
       ELSE Goto("upload", session, uploadData)
    /\ UNCHANGED <<r, config, fs, mapper, response, client, sessLog, pool,
                   cleanups, fault, hdr>>
    /\ UNCHANGED extra

DecideUpload ==
    /\ pc = "upload"
    /\ IF UploadAccelerated(r)
       THEN Goto("receive", session,
                 [uploadData EXCEPT !.ptr = TRUE, !.created = @ + 1])
       ELSE Goto("acquire", session, uploadData)
    /\ UNCHANGED <<r, config, fs, mapper, response, client, sessLog, pool,
                   cleanups, fault, hdr>>
    /\ UNCHANGED extra

\* one turn of the loop of receiveRequestBody: a block is read and written
ReceiveBlock ==
    /\ pc = "receive"
    /\ client.remaining > 0
    /\ LET len == Min(client.remaining, BUF_SIZE)
       IN  /\ client' = [client EXCEPT !.remaining = @ - len]
           /\ \E w \in {"full", "partial", "fail"} :
                IF w = "fail"
                THEN Throw("SystemException") /\ NoteFault("receive", "fwrite")
                ELSE /\ Goto("receive", session,
                             [uploadData EXCEPT !.size = @ + len,
                                                !.intact = @ /\ (w = "full")])
                     /\ UNCHANGED fault
    /\ UNCHANGED <<r, config, fs, mapper, response, sessLog, pool, cleanups, hdr>>
    /\ UNCHANGED extra

\* ap_get_client_block returns 0 or -1: the loop ends and the length is tested
ReceiveEnd ==
    /\ pc = "receive"
    /\ \E len \in {0, -1} :
         IF len = -1 THEN Throw("IOException") /\ NoteFault("receive", "client")
         ELSE IF ~UploadComplete(uploadData, r)
              THEN Throw("IOException") /\ NoteFault("receive", "incomplete")
         ELSE Goto("acquire", session, uploadData) /\ UNCHANGED fault
    /\ UNCHANGED <<r, config, fs, mapper, response, client, sessLog, pool,
                   cleanups, hdr>>
    /\ UNCHANGED extra

Acquire ==
    /\ pc = "acquire"
    /\ \E o \in GetOutcomesOn(host.steps) :
         /\ pool' = [getCalls |-> pool.getCalls + 1, outcome |-> o,
                     unreadAtGet |-> client.remaining,
                     options |-> SpawnOptions(mapper, r, config, fs),
                     ready |-> host.steps]
         /\ IF o = "session"
            THEN /\ Goto(AfterGet(o),
                         [session EXCEPT !.state = "open", !.local = TRUE], uploadData)
                 /\ UNCHANGED <<response, fault>>
            ELSE IF o = "null_pointer"
            THEN /\ pc' = "crashed"
                 /\ status' = "crashed"
                 /\ NoteFault("get", o)
                 /\ UNCHANGED <<session, uploadData, response>>
            ELSE /\ Respond(CatchGet(o))
                 /\ pc' = AfterGet(o)
                 /\ status' = CatchGet(o).status
                 /\ session' = DropLocal(session)
                 /\ uploadData' = DropUpload(uploadData)
                 /\ NoteFault("get", o)
    /\ UNCHANGED <<r, config, fs, mapper, client, sessLog, cleanups, hdr>>
    /\ UNCHANGED extra

SetTimeouts ==
    /\ pc = "timeouts"
    /\ \/ /\ sessLog' = sessLog \o <<"setReaderTimeout", "setWriterTimeout">>
          /\ Goto(StepAfter("timeouts", r), session, uploadData)
          /\ UNCHANGED fault
       \/ \E e \in SessionErrors :
            /\ sessLog' \in {Append(sessLog, "setReaderTimeout"),
                             sessLog \o <<"setReaderTimeout", "setWriterTimeout">>}
            /\ Throw(e)
            /\ NoteFault("timeouts", e)
    /\ UNCHANGED <<r, config, fs, mapper, response, client, pool, cleanups, hdr>>
    /\ UNCHANGED extra

\* apr_table_make aborts rather than return NULL, so the APR_ENOMEM return of
\* sendHeaders (which handleRequest would not look at) is not taken
SendHeaders ==
    /\ pc = "sendHeaders"
    /\ LET table == RequestHeaders(r, getBaseURI(mapper, r, config, fs).ret)
       IN  hdr' = [pairs |-> table, buffer |-> HeaderPayload(table),
                   fields |-> <<>>, step |-> "sent"]
    /\ sessLog' = Append(sessLog, "sendHeaders")
    /\ \/ Goto(StepAfter("sendHeaders", r), session, uploadData) /\ UNCHANGED fault
       \/ \E e \in SessionErrors : Throw(e) /\ NoteFault("sendHeaders", e)
    /\ UNCHANGED <<r, config, fs, mapper, response, client, pool, cleanups>>
    /\ UNCHANGED extra

\* sendRequestBody from the TempFile: fread of one block, then sendBodyBlock
SendFileBlock ==
    /\ pc = "sendBody"
    /\ uploadData.ptr
    /\ ~uploadData.eof
    /\ LET size == Min(BUF_SIZE, uploadData.size - uploadData.pos)
           u == [uploadData EXCEPT !.pos = @ + size,
                                   !.eof = (uploadData.size - uploadData.pos < BUF_SIZE)]
           s == [session EXCEPT !.fromFile = @ + size]
       IN  /\ sessLog' = Append(sessLog, "sendBodyBlock")
           /\ \/ Goto("sendBody", s, u) /\ UNCHANGED fault
              \/ \E e \in SessionErrors :
                   ReturnWith(CatchOuter(e), session, u) /\ NoteFault("sendBody", e)
    /\ UNCHANGED <<r, config, fs, mapper, response, client, pool, cleanups, hdr>>
    /\ UNCHANGED extra

\* feof: the loop ends and uploadData is reset
SendFileDone ==
    /\ pc = "sendBody"
    /\ uploadData.ptr
    /\ uploadData.eof
    /\ Goto(StepAfter("sendBody", r), session, DropUpload(uploadData))
    /\ UNCHANGED <<r, config, fs, mapper, response, client, sessLog, pool,
                   cleanups, fault, hdr>>
    /\ UNCHANGED extra

\* sendRequestBody from the client: one block read, then sendBodyBlock
SendClientBlock ==
    /\ pc = "sendBody"
    /\ ~uploadData.ptr
    /\ client.remaining > 0
    /\ LET len == Min(client.remaining, BUF_SIZE)
       IN  /\ client' = [client EXCEPT !.remaining = @ - len]
           /\ sessLog' = Append(sessLog, "sendBodyBlock")
           /\ \/ /\ Goto("sendBody", [session EXCEPT !.fromClient = @ + len], uploadData)
                 /\ UNCHANGED fault
              \/ \E e \in SessionErrors : Throw(e) /\ NoteFault("sendBody", e)
    /\ UNCHANGED <<r, config, fs, mapper, response, pool, cleanups, hdr>>
    /\ UNCHANGED extra

\* ap_get_client_block returns 0 or -1: the loop ends
SendClientEnd ==
    /\ pc = "sendBody"
    /\ ~uploadData.ptr
    /\ \E len \in {0, -1} :
         IF len = -1 THEN Throw("IOException") /\ NoteFault("sendBody", "client")
         ELSE Goto(StepAfter("sendBody", r), session, uploadData) /\ UNCHANGED fault
    /\ UNCHANGED <<r, config, fs, mapper, response, client, sessLog, pool,
                   cleanups, hdr>>
    /\ UNCHANGED extra

ShutdownWriter ==
    /\ pc = "shutdownWriter"
    /\ sessLog' = Append(sessLog, "shutdownWriter")
    /\ \/ Goto(StepAfter("shutdownWriter", r), session, uploadData) /\ UNCHANGED fault
       \/ \E e \in SessionErrors : Throw(e) /\ NoteFault("shutdownWriter", e)
    /\ UNCHANGED <<r, config, fs, mapper, response, client, pool, cleanups, hdr>>
    /\ UNCHANGED extra

\* getStream, the pipe bucket, ap_scan_script_header_err_brigade and
\* ap_pass_brigade: what they return is not looked at
Relay ==
    /\ pc = "relay"
    /\ sessLog' = Append(sessLog, "getStream")
    /\ \E res \in {"ok", "error", "timeout"} :
         /\ response' = [response EXCEPT
                           !.body = IF res = "ok" THEN <<"workerResponse">> ELSE @]
         /\ IF res = "ok" THEN UNCHANGED fault ELSE NoteFault("relay", res)
    /\ Goto(StepAfter("relay", r), session, uploadData)
    /\ UNCHANGED <<r, config, fs, mapper, client, pool, cleanups, hdr>>
    /\ UNCHANGED extra

\* the Container is registered on r->pool and handleRequest returns OK
RegisterCleanup ==
    /\ pc = "register"
    /\ cleanups' = [cleanups EXCEPT !.registered = TRUE]
    /\ sessLog' = Append(sessLog, "discardStream")
    /\ ReturnWith("OK", [session EXCEPT !.container = TRUE], uploadData)
    /\ UNCHANGED <<r, config, fs, mapper, response, client, pool, fault, hdr>>
    /\ UNCHANGED extra

\* the host destroys r->pool once the request is over: the cleanups run
DestroyRequestPool ==
    /\ pc = "returned"
    /\ status # "escaped"
    /\ pc' = "finished"
    /\ IF cleanups.registered
       THEN \E kind \in CloseFaults :
              /\ cleanups' = [cleanups EXCEPT !.poolDestroyed = TRUE,
                                              !.thrown = kind,
                                              !.result = CleanupCatch(kind)]
              /\ session' = ContainerCleanup(session)
       ELSE /\ cleanups' = [cleanups EXCEPT !.poolDestroyed = TRUE]
            /\ UNCHANGED session
    /\ UNCHANGED <<r, config, fs, mapper, status, response, client, uploadData,
                   sessLog, pool, fault, hdr>>
    /\ UNCHANGED extra

Next ==
    \/ Classify
    \/ CheckPublicDirectory
    \/ SetupClientBlock
    \/ DecideUpload
    \/ ReceiveBlock
    \/ ReceiveEnd
    \/ Acquire
    \/ SetTimeouts
    \/ SendHeaders
    \/ SendFileBlock
    \/ SendFileDone
    \/ SendClientBlock
    \/ SendClientEnd
    \/ ShutdownWriter
    \/ Relay
    \/ RegisterCleanup
    \/ DestroyRequestPool

Spec == Init /\ [][Next]_vars

\* the request thread keeps running and the host destroys the request pool
FairSpec == Spec /\ WF_vars(Next)

-----------------------------------------------------------------------------
(* handleRequest under every configuration of user, environment and spawn   *)
(* method, for applications of the three types.  A configured string is     *)
(* never empty: the directives take one argument, and the server refuses an *)
(* empty one; "NULL" stands for a directive that was not given.             *)

OptionRequests ==
    [uri : {<<"/", "a">>},
     filename : {"set"},
     docRoot : {<<"/", "w", "/">>},
     contentLength : {0, 100, UPLOAD_ACCELERATION_THRESHOLD + 1},
     setupStatus : {"OK"},
     method : {"M_POST"}]

OptionConfigs ==
    [railsBaseURIs : {{}, {<<"/", "a">>}},
     rackBaseURIs : {{}, {<<"/", "a">>}},
     autoDetectRails : {"UNSET"},
     autoDetectRack : {"UNSET"},
     autoDetectWSGI : {"UNSET"},
     allowModRewrite : {"UNSET"},
     defaultUser : {"NULL", "www"},
     railsEnv : {"NULL", "development"},
     rackEnv : {"NULL", "staging"},
     spawnMethod : {"SM_UNSET", "SM_SMART", "SM_CONSERVATIVE"}]

OptionFileSystems ==
    [markers : {{}, {"RAILS"}, {"RACK"}, {"WSGI"}},
     probeError : {"none"},
     file : {"no"},
     html : {"no"}]

OptionInit ==
    /\ r \in OptionRequests
    /\ config \in OptionConfigs
    /\ fs \in OptionFileSystems
    /\ client = [remaining |-> r.contentLength]
    /\ pc = "classify"
    /\ hdr = NoHeaders
    /\ Fresh
    /\ IdleMapper /\ IdleStorage /\ IdlePool /\ IdleHost

OptionSpec == OptionInit /\ [][Next]_vars

-----------------------------------------------------------------------------
(* The header payload on its own: any table, serialised, then split *)

IdleRequest ==
    [uri |-> <<>>, filename |-> "NULL", docRoot |-> <<>>, contentLength |-> 0,
     setupStatus |-> "OK", method |-> "M_GET"]

IdleConfig ==
    [railsBaseURIs |-> {}, rackBaseURIs |-> {}, autoDetectRails |-> "DISABLED",
     autoDetectRack |-> "DISABLED", autoDetectWSGI |-> "DISABLED",
     allowModRewrite |-> "UNSET", defaultUser |-> "NULL", railsEnv |-> "NULL",
     rackEnv |-> "NULL", spawnMethod |-> "SM_UNSET"]

IdleFileSystem ==
    [markers |-> {}, probeError |-> "none", file |-> "no", html |-> "no"]

HdrInit ==
    /\ r = IdleRequest
    /\ config = IdleConfig
    /\ fs = IdleFileSystem
    /\ client = [remaining |-> 0]
    /\ pc = "headers"
    /\ Fresh
    /\ IdleMapper /\ IdleStorage /\ IdlePool /\ IdleHost
    /\ \E t \in HeaderTables :
         hdr = [pairs |-> t, buffer |-> <<>>, fields |-> <<>>, step |-> "table"]

\* the loop over the table and the dummy header appended by sendHeaders
BuildPayload ==
    /\ hdr.step = "table"
    /\ hdr' = [hdr EXCEPT !.buffer = HeaderPayload(hdr.pairs), !.step = "sent"]
    /\ UNCHANGED <<r, config, fs, mapper, pc, status, response, client, uploadData,
                   session, sessLog, pool, cleanups, fault>>
    /\ UNCHANGED extra

\* the request handler splits what it received
WorkerSplit ==
    /\ pc = "headers"
    /\ hdr.step = "sent"
    /\ hdr' = [hdr EXCEPT !.fields = RubySplit(hdr.buffer), !.step = "parsed"]
    /\ UNCHANGED <<r, config, fs, mapper, pc, status, response, client, uploadData,
                   session, sessLog, pool, cleanups, fault>>
    /\ UNCHANGED extra

HdrNext == BuildPayload \/ WorkerSplit

HdrSpec == HdrInit /\ [][HdrNext]_vars

-----------------------------------------------------------------------------
(* The DirectoryMapper on its own: one mapper, a few calls of its getters *)

ResolverURIs ==
    {<<>>, <<"a">>, <<"/">>, <<"/", "a">>, <<"/", "a", "/", "b">>, <<"/", "a", "b">>}

ResolverRequests ==
    [uri : ResolverURIs,
     filename : {"set"},
     docRoot : {<<>>, <<"/", "w">>, <<"/", "w", "/">>, <<"/", "w", "/", "/">>},
     contentLength : {0},
     setupStatus : {"OK"},
     method : {"M_GET"}]

ResolverConfigs ==
    [railsBaseURIs : {{}, {<<"/", "a">>}, {<<"/">>}, {<<"/">>, <<"/", "a">>}},
     rackBaseURIs : {{}, {<<"/", "a">>}, {<<"/", "a", "b">>}, {<<"/">>}},
     autoDetectRails : {"ENABLED", "UNSET", "DISABLED"},
     autoDetectRack : {"UNSET", "DISABLED"},
     autoDetectWSGI : {"ENABLED", "DISABLED"},
     allowModRewrite : {"UNSET"},
     defaultUser : {"NULL"},
     railsEnv : {"NULL"},
     rackEnv : {"NULL"},
     spawnMethod : {"SM_UNSET"}]

ResolverFileSystems ==
    [markers : SUBSET {"RAILS", "RACK", "WSGI"},
     probeError : {"none", "EPERM"},
     file : {"no"},
     html : {"no"}]

ResolverInit ==
    /\ r \in ResolverRequests
    /\ config \in ResolverConfigs
    /\ fs \in ResolverFileSystems
    /\ client = [remaining |-> 0]
    /\ pc = "mapper"
    /\ hdr = NoHeaders
    /\ Fresh
    /\ IdleMapper /\ IdleStorage /\ IdlePool /\ IdleHost

\* one call on the mapper: the result is kept in lookup, the cache in mapper
Called(op, a) ==
    /\ pc = "mapper"
    /\ lookup.calls < MaxCalls
    /\ mapper' = a.m
    /\ lookup' = [op |-> op, ret |-> a.ret, threw |-> a.threw,
                  calls |-> lookup.calls + 1]
    /\ UNCHANGED <<r, config, fs, pc, status, response, client, uploadData,
                   session, sessLog, pool, cleanups, fault, hdr>>
    /\ UNCHANGED <<mts, appPool, threads, events, host>>

CallGetBaseURI == Called("getBaseURI", getBaseURI(mapper, r, config, fs))

CallGetPublicDirectory ==
    Called("getPublicDirectory", getPublicDirectory(mapper, r, config, fs))

CallGetApplicationType ==
    Called("getApplicationType", getApplicationType(mapper, r, config, fs))

CallGetApplicationTypeString ==
    Called("getApplicationTypeString", getApplicationTypeString(mapper, r, config, fs))

ResolverNext ==
    \/ CallGetBaseURI
    \/ CallGetPublicDirectory
    \/ CallGetApplicationType
    \/ CallGetApplicationTypeString

ResolverSpec == ResolverInit /\ [][ResolverNext]_vars

-----------------------------------------------------------------------------
(* Hooks::mapToStorage, then Hooks::handleRequest, on the same request *)

\* a variant that looks for the page cache file whatever the method
mapToStorage_anyMethod(req, cfg, f) ==
    LET a == getBaseURI(MapperNew, req, cfg, f)
        Result(ret, fwd, name) == [ret |-> ret, forward |-> fwd, filename |-> name]
        Forward ==
            IF cfg.allowModRewrite # "ENABLED" /\ a.m.appType = "RAILS"
            THEN Result("OK", "yes", req.filename)
            ELSE IF req.uri = a.ret THEN Result("OK", "yes", req.filename)
            ELSE Result("DECLINED", "yes", req.filename)
    IN  IF a.threw # "none" THEN Result("DECLINED", "threw", req.filename)
        ELSE IF a.ret = NULL THEN Result("DECLINED", "no", req.filename)
        ELSE IF fileExists(f, req.filename) \notin {"yes", "no"}
             THEN Result("DECLINED", "threw", req.filename)
        ELSE IF fileExists(f, req.filename) = "yes"
             THEN Result("DECLINED", "no", req.filename)
        ELSE IF fileExists(f, "html") \notin {"yes", "no"}
             THEN Result("DECLINED", "threw", req.filename)
        ELSE IF fileExists(f, "html") = "yes" THEN Result("DECLINED", "no", "html")
        ELSE Forward

\* mapToStorage: the value returned, whether the request is to be forwarded
\* ("threw" when a FileSystemException was caught), and r->filename afterwards
mapToStorage(req, cfg, f) ==
    LET a == getBaseURI(MapperNew, req, cfg, f)
        Result(ret, fwd, name) == [ret |-> ret, forward |-> fwd, filename |-> name]
        Forward ==
            IF cfg.allowModRewrite # "ENABLED" /\ a.m.appType = "RAILS"
            THEN Result("OK", "yes", req.filename)
            ELSE IF req.uri = a.ret THEN Result("OK", "yes", req.filename)
            ELSE Result("DECLINED", "yes", req.filename)
    IN  IF a.threw # "none" THEN Result("DECLINED", "threw", req.filename)
        ELSE IF a.ret = NULL THEN Result("DECLINED", "no", req.filename)
        ELSE IF fileExists(f, req.filename) \notin {"yes", "no"}
             THEN Result("DECLINED", "threw", req.filename)
        ELSE IF fileExists(f, req.filename) = "yes"
             THEN Result("DECLINED", "no", req.filename)
        ELSE IF req.method = "M_GET"
             THEN IF fileExists(f, "html") \notin {"yes", "no"}
                  THEN Result("DECLINED", "threw", req.filename)
                  ELSE IF fileExists(f, "html") = "yes"
                       THEN Result("DECLINED", "no", "html")
                  ELSE Forward
        ELSE Forward

StorageRequests ==
    [uri : {<<"/", "a">>, <<"/", "a", "/", "b">>},
     filename : {"set"},
     docRoot : {<<"/", "w", "/">>},
     contentLength : {0, 100, UPLOAD_ACCELERATION_THRESHOLD + 1},
     setupStatus : {"OK"},
     method : {"M_GET", "M_POST"}]

StorageConfigs ==
    [railsBaseURIs : {{}},
     rackBaseURIs : {{}, {<<"/", "a">>}},
     autoDetectRails : {"UNSET"},
     autoDetectRack : {"DISABLED"},
     autoDetectWSGI : {"DISABLED"},
     allowModRewrite : {"UNSET", "ENABLED"},
     defaultUser : {"NULL"},
     railsEnv : {"NULL"},
     rackEnv : {"NULL"},
     spawnMethod : {"SM_UNSET"}]

StorageFileSystems ==
    [markers : {{}, {"RAILS"}},
     probeError : {"none", "EPERM"},
     file : {"yes", "no", "EPERM"},
     html : {"yes", "no", "EPERM"}]

StorageInit ==
    /\ r \in StorageRequests
    /\ config \in StorageConfigs
    /\ fs \in StorageFileSystems
    /\ client = [remaining |-> r.contentLength]
    /\ pc = "mapToStorage"
    /\ hdr = NoHeaders
    /\ Fresh
    /\ IdleMapper /\ IdleStorage /\ IdlePool /\ IdleHost

\* the map_to_storage hook runs before the handler hook of the same request
MapToStorage ==
    /\ pc = "mapToStorage"
    /\ LET m == mapToStorage(r, config, fs)
       IN  /\ mts' = [done |-> TRUE, ret |-> m.ret, forward |-> m.forward]
           /\ r' = [r EXCEPT !.filename = m.filename]
    /\ pc' = "classify"
    /\ UNCHANGED <<config, fs, mapper, status, response, client, uploadData,
                   session, sessLog, pool, cleanups, fault, hdr>>
    /\ UNCHANGED <<lookup, appPool, threads, events, host>>

StorageNext == MapToStorage \/ Next

StorageSpec == StorageInit /\ [][StorageNext]_vars

-----------------------------------------------------------------------------
(* ApplicationPool: the pool behind the interface of ApplicationPool.h.      *)
(* The interface says what get, clear, setMax and setMaxPerApp are for; the  *)
(* pooling algorithm is the one of the specification, section 4.4.           *)
(*                                                                           *)
(* A worker is [id, key, sessions, lastUsedAt, generation, spawning]; a      *)
(* worker whose spawn is in flight already occupies its slot (state          *)
(* Spawning of the worker state machine).  Time is a logical clock that      *)
(* advances with every use of a worker, so that lastUsedAt values differ.    *)

Keys == {"A", "B", "C"}

Threads == {"t1", "t2", "t3"}

Total(p) == Cardinality(p.workers)

PerKey(p, k) == Cardinality({w \in p.workers : w.key = k})

\* the workers no session refers to
Idle(p) == {w \in p.workers : ~w.spawning /\ w.sessions = 0}

PoolNew(maxPool, maxPerApp, maxIdle) ==
    [workers |-> {}, maxPool |-> maxPool, maxPerApp |-> maxPerApp,
     maxIdleSeconds |-> maxIdle, spawning |-> {},
     restartStamp |-> [k \in Keys |-> 0], restartFile |-> [k \in Keys |-> 0],
     now |-> 1, nextId |-> 1, waitq |-> <<>>]

\* a variant that restarts whenever restart.txt is there
RestartDue_always(p, k) == p.restartFile[k] >= p.restartStamp[k]

\* step 1 of get: restart.txt of the key is newer than the stored stamp
RestartDue(p, k) == p.restartFile[k] > p.restartStamp[k]

\* step 1 of get: drop all workers of the key and store the new stamp.  A
\* session or a spawn in flight on a dropped worker goes on, outside the pool.
RestartCheck(p, k) ==
    IF RestartDue(p, k)
    THEN [p EXCEPT !.workers = {w \in @ : w.key # k},
                   !.restartStamp[k] = p.restartFile[k]]
    ELSE p

\* a variant that also offers the workers in use
Reusable_busy(p, k) == {w \in p.workers : ~w.spawning /\ w.key = k}

\* step 2 of get: the idle workers of the key
Reusable(p, k) == {w \in Idle(p) : w.key = k}

\* the tie-break of reuse: the most recently used
MostRecent(ws) == CHOOSE w \in ws : \A v \in ws : v.lastUsedAt <= w.lastUsedAt

\* a variant that never sees the per-key cap reached
AtPerKeyCap_never(p, k) == FALSE

\* step 3 of get: the key has as many workers as maxPerApp allows
AtPerKeyCap(p, k) == PerKey(p, k) >= p.maxPerApp

\* a variant that never sees the global cap reached
Saturated_never(p) == FALSE

\* step 3 of get: the pool has as many workers as maxPool allows
Saturated(p) == Total(p) >= p.maxPool

\* a variant that finds room without evicting
Excess_none(p) == 0

\* how many workers have to go before one more fits under maxPool
Excess(p) == Total(p) - p.maxPool + 1

\* a variant that evicts the most recently used idle workers
Victims_mru(p, n) ==
    {w \in Idle(p) :
        Cardinality({v \in Idle(p) : v.lastUsedAt > w.lastUsedAt}) < n}

\* global-cap eviction: the n least recently used idle workers, of any key
Victims(p, n) ==
    {w \in Idle(p) :
        Cardinality({v \in Idle(p) : v.lastUsedAt < w.lastUsedAt}) < n}

\* step 4 of get: another caller is spawning for the key
Coalesced(p, k) == k \in p.spawning

\* the worker a spawn for the key is started for
Spawned(p, k) ==
    [id |-> p.nextId, key |-> k, sessions |-> 0, lastUsedAt |-> 0,
     generation |-> p.restartStamp[k], spawning |-> TRUE]

\* the worker with a session on it, just used
InUse(w, now) == [w EXCEPT !.sessions = 1, !.lastUsedAt = now, !.spawning = FALSE]

\* steps 2 to 5 of get, up to the decision: the pool afterwards, what the
\* caller does next ("session", "wait", "spawn" or "BusyError"), the worker it
\* got, and the workers evicted on the way
Admit(p, k) ==
    LET Out(q, what, id, gone) ==
            [pool |-> q, outcome |-> what, worker |-> id, evicted |-> gone]
        w == MostRecent(Reusable(p, k))
        gone == IF Saturated(p) THEN Victims(p, Excess(p)) ELSE {}
        q == [p EXCEPT !.workers = @ \ gone]
    IN  IF Reusable(p, k) # {}
        THEN Out([p EXCEPT !.workers = (@ \ {w}) \cup {InUse(w, p.now)},
                           !.now = @ + 1],
                 "session", w.id, {})
        ELSE IF AtPerKeyCap(p, k) THEN Out(p, "wait", 0, {})
        ELSE IF Saturated(p) /\ Cardinality(Idle(p)) < Excess(p)
             THEN Out(p, "BusyError", 0, {})
        ELSE IF Coalesced(q, k) THEN Out(q, "wait", 0, gone)
        ELSE Out([q EXCEPT !.workers = @ \cup {Spawned(q, k)},
                           !.spawning = @ \cup {k},
                           !.nextId = @ + 1],
                 "spawn", q.nextId, gone)

\* a thread that is not inside get and holds no session
Outside(result) == [state |-> "out", key |-> "none", worker |-> 0, result |-> result]

\* what is remembered of the run: restart retirements per key; the calls of
\* get for a key since its restart.txt was last touched (0, 1, or 2 for more),
\* who made the first of them, and how many callers got past waiting since
\* (0, 1, or 2 for more); and the evictions for the global cap
NoHistory ==
    [restarts |-> [k \in Keys |-> 0], sinceTouch |-> [k \in Keys |-> 0],
     first |-> [k \in Keys |-> "none"], served |-> [k \in Keys |-> 0],
     evictions |-> 0]

PoolInit ==
    /\ appPool \in {PoolNew(mp, mpa, MaxIdle) : mp \in 1..MaxCap, mpa \in 1..MaxCap}
    /\ threads = [t \in Threads |-> Outside("none")]
    /\ events = NoHistory
    /\ r = IdleRequest
    /\ config = IdleConfig
    /\ fs = IdleFileSystem
    /\ client = [remaining |-> 0]
    /\ pc = "pool"
    /\ hdr = NoHeaders
    /\ Fresh
    /\ IdleMapper /\ IdleStorage /\ IdleHost

PoolFrame ==
    UNCHANGED <<r, config, fs, mapper, pc, status, response, client, uploadData,
                session, sessLog, pool, cleanups, fault, hdr, lookup, mts, host>>

\* what a decision of get does to the caller and to the history
Decided(t, k, d, restarted, entered) ==
    /\ d.outcome = "session" => appPool.now < MaxClock
    /\ d.outcome = "spawn" => appPool.nextId <= MaxWorkers
    /\ appPool' =
          [d.pool EXCEPT !.waitq =
              IF d.outcome = "wait"
              THEN (IF entered THEN Append(@, t) ELSE @)
              ELSE SelectSeq(@, LAMBDA u : u # t)]
    /\ threads' = [threads EXCEPT ![t] =
          CASE d.outcome = "session" ->
                   [state |-> "holding", key |-> k, worker |-> d.worker,
                    result |-> "session"]
            [] d.outcome = "spawn" ->
                   [state |-> "spawning", key |-> k, worker |-> d.worker,
                    result |-> "none"]
            [] d.outcome = "wait" ->
                   [state |-> "waiting", key |-> k, worker |-> 0, result |-> "none"]
            [] OTHER -> Outside("BusyError")]
    /\ events' =
          LET touched == appPool.restartFile[k] > 0
              counted == entered /\ touched
          IN  [events EXCEPT
                  !.restarts[k] = IF restarted THEN @ + 1 ELSE @,
                  !.served[k] = IF touched /\ d.outcome # "wait"
                                THEN Min(@ + 1, 2) ELSE @,
                  !.sinceTouch[k] = IF counted THEN Min(@ + 1, 2) ELSE @,
                  !.first[k] = IF counted /\ events.sinceTouch[k] = 0 THEN t ELSE @,
                  !.evictions = IF d.evicted # {} THEN @ + 1 ELSE @]

\* a thread calls get(key): restart check, then reuse, admission or spawn
Get(t, k) ==
    /\ pc = "pool"
    /\ threads[t].state = "out"
    /\ Decided(t, k, Admit(RestartCheck(appPool, k), k), RestartDue(appPool, k), TRUE)
    /\ PoolFrame

\* the waiters of a key are woken in the order they came
FirstWaiter(t) ==
    LET k == threads[t].key
        q == SelectSeq(appPool.waitq, LAMBDA u : threads[u].key = k)
    IN  Len(q) > 0 /\ q[1] = t

\* a waiting caller is woken and goes through reuse and admission again
Wake(t) ==
    /\ pc = "pool"
    /\ threads[t].state = "waiting"
    /\ FirstWaiter(t)
    /\ Admit(appPool, threads[t].key).outcome # "wait"
    /\ Decided(t, threads[t].key, Admit(appPool, threads[t].key), FALSE, FALSE)
    /\ PoolFrame

\* the worker of the pool a thread spawns for or holds, if it is still there
Held(t) == {w \in appPool.workers : w.id = threads[t].worker}

\* the spawn server answered "ok": the worker is installed, busy, and the
\* caller gets its session
SpawnOk(t) ==
    /\ pc = "pool"
    /\ threads[t].state = "spawning"
    /\ appPool.now < MaxClock
    /\ appPool' =
          [appPool EXCEPT
              !.workers = (@ \ Held(t)) \cup {InUse(w, appPool.now) : w \in Held(t)},
              !.spawning = @ \ {threads[t].key},
              !.now = @ + 1]
    /\ threads' = [threads EXCEPT ![t].state = "holding", ![t].result = "session"]
    /\ UNCHANGED events
    /\ PoolFrame

\* the spawn server answered "error": no worker, SpawnError to the caller
SpawnFail(t) ==
    /\ pc = "pool"
    /\ threads[t].state = "spawning"
    /\ appPool' = [appPool EXCEPT !.workers = @ \ Held(t),
                                  !.spawning = @ \ {threads[t].key}]
    /\ threads' = [threads EXCEPT ![t] = Outside("SpawnError")]
    /\ UNCHANGED events
    /\ PoolFrame

\* the worker is more than the caps allow (they were lowered since)
OverCap(p, w) == Total(p) > p.maxPool \/ PerKey(p, w.key) > p.maxPerApp

\* release(worker, healthy): idle again, or retired when over a lowered cap
ReleaseHealthy(t) ==
    /\ pc = "pool"
    /\ threads[t].state = "holding"
    /\ appPool.now < MaxClock
    /\ appPool' =
          [appPool EXCEPT
              !.workers = (@ \ Held(t)) \cup
                  {[w EXCEPT !.sessions = 0, !.lastUsedAt = appPool.now] :
                      w \in {v \in Held(t) : ~OverCap(appPool, v)}},
              !.now = @ + 1]
    /\ threads' = [threads EXCEPT ![t] = Outside("none")]
    /\ UNCHANGED events
    /\ PoolFrame

\* release(worker, unhealthy): the worker is removed from the pool
ReleaseUnhealthy(t) ==
    /\ pc = "pool"
    /\ threads[t].state = "holding"
    /\ appPool' = [appPool EXCEPT !.workers = @ \ Held(t)]
    /\ threads' = [threads EXCEPT ![t] = Outside("none")]
    /\ UNCHANGED events
    /\ PoolFrame

\* clear(): all workers are removed
Clear ==
    /\ pc = "pool"
    /\ appPool.workers # {}
    /\ appPool' = [appPool EXCEPT !.workers = {}]
    /\ UNCHANGED <<threads, events>>
    /\ PoolFrame

\* setMax(n): only the cap changes
SetMax(n) ==
    /\ pc = "pool"
    /\ n # appPool.maxPool
    /\ appPool' = [appPool EXCEPT !.maxPool = n]
    /\ UNCHANGED <<threads, events>>
    /\ PoolFrame

\* setMaxPerApp(n): only the cap changes
SetMaxPerApp(n) ==
    /\ pc = "pool"
    /\ n # appPool.maxPerApp
    /\ appPool' = [appPool EXCEPT !.maxPerApp = n]
    /\ UNCHANGED <<threads, events>>
    /\ PoolFrame

\* the idle workers the sweeper drops
Expired(p) == {w \in Idle(p) : p.now - w.lastUsedAt > p.maxIdleSeconds}

Sweep ==
    /\ pc = "pool"
    /\ Expired(appPool) # {}
    /\ appPool' = [appPool EXCEPT !.workers = @ \ Expired(appPool)]
    /\ UNCHANGED <<threads, events>>
    /\ PoolFrame

\* time passes; only the age of an idle worker can tell
Tick ==
    /\ pc = "pool"
    /\ appPool.now < MaxClock
    /\ Idle(appPool) # Expired(appPool)
    /\ appPool' = [appPool EXCEPT !.now = @ + 1]
    /\ UNCHANGED <<threads, events>>
    /\ PoolFrame

\* tmp/restart.txt of an application is touched: a newer mtime
Touch(k) ==
    /\ pc = "pool"
    /\ appPool.restartFile[k] < MaxTouches
    /\ appPool' = [appPool EXCEPT !.restartFile[k] = @ + 1]
    /\ events' = [events EXCEPT !.sinceTouch[k] = 0, !.first[k] = "none",
                                !.served[k] = 0]
    /\ UNCHANGED threads
    /\ PoolFrame

PoolNext ==
    \/ \E t \in {"t1", "t2"}, k \in Keys : Get(t, k)
    \/ \E t \in Threads : Wake(t)
    \/ \E t \in Threads : SpawnOk(t)
    \/ \E t \in Threads : SpawnFail(t)
    \/ \E t \in Threads : ReleaseHealthy(t)
    \/ \E t \in Threads : ReleaseUnhealthy(t)
    \/ Clear
    \/ \E n \in 1..MaxCap : SetMax(n)
    \/ \E n \in 1..MaxCap : SetMaxPerApp(n)
    \/ Sweep
    \/ Tick

PoolSpec == PoolInit /\ [][PoolNext]_vars

-----------------------------------------------------------------------------
(* Concurrent first requests for one application: an empty pool with         *)
(* maxPerApp = 1, every thread calls get for the same key, spawns succeed    *)
(* and sessions are released healthy.                                        *)

CoalesceInit ==
    /\ appPool \in {PoolNew(mp, 1, MaxIdle) : mp \in 1..MaxCap}
    /\ threads = [t \in Threads |-> Outside("none")]
    /\ events = NoHistory
    /\ r = IdleRequest
    /\ config = IdleConfig
    /\ fs = IdleFileSystem
    /\ client = [remaining |-> 0]
    /\ pc = "pool"
    /\ hdr = NoHeaders
    /\ Fresh
    /\ IdleMapper /\ IdleStorage /\ IdleHost

CoalesceNext ==
    \/ \E t \in Threads : Get(t, "A")
    \/ \E t \in Threads : Wake(t)
    \/ \E t \in Threads : SpawnOk(t)
    \/ \E t \in Threads : ReleaseHealthy(t)

CoalesceSpec == CoalesceInit /\ [][CoalesceNext]_vars

-----------------------------------------------------------------------------
(* Restart: gets and releases of two threads, and restart.txt of A touched *)

RestartNext ==
    \/ \E t \in {"t1", "t2"}, k \in {"A", "B"} : Get(t, k)
    \/ \E t \in Threads : Wake(t)
    \/ \E t \in Threads : SpawnOk(t)
    \/ \E t \in Threads : SpawnFail(t)
    \/ \E t \in Threads : ReleaseHealthy(t)
    \/ \E t \in Threads : ReleaseUnhealthy(t)
    \/ Touch("A")

RestartSpec == PoolInit /\ [][RestartNext]_vars

-----------------------------------------------------------------------------
(* A pool that runs full: gets and releases of two threads for two keys,    *)
(* the global cap changed under them, and restart.txt of A touched          *)

BusyNext ==
    \/ \E t \in {"t1", "t2"}, k \in {"A", "B"} : Get(t, k)
    \/ \E t \in Threads : Wake(t)
    \/ \E t \in Threads : SpawnOk(t)
    \/ \E t \in Threads : ReleaseHealthy(t)
    \/ \E n \in 1..MaxCap : SetMax(n)
    \/ Touch("A")

BusySpec == PoolInit /\ [][BusyNext]_vars

-----------------------------------------------------------------------------
(* The C wrappers around Hooks: the static pointer `hooks`, init_module and  *)
(* destroy_hooks in the parent, init_child in the child, then the hooks of   *)
(* one request.  A Hooks object is a number; hooks = 0 is the NULL pointer.  *)

\* calls of init_module in one run
MaxInits == 2

\* what the constructor of Hooks may do
InitOutcomes == {"ok", "thread_interrupted", "thread_resource_error", "exception"}

LifeRequests ==
    [uri : {<<"/", "a">>},
     filename : {"set"},
     docRoot : {<<"/", "w", "/">>},
     contentLength : {0, 100, UPLOAD_ACCELERATION_THRESHOLD + 1},
     setupStatus : {"OK"},
     method : {"M_GET"}]

LifeConfig == [IdleConfig EXCEPT !.railsBaseURIs = {<<"/", "a">>}]

\* nothing has run yet: no object, the pointer as the static initialiser set it
NewHost ==
    [hooks |-> 0, live |-> {}, dead |-> {}, twice |-> {}, nextId |-> 1,
     cleanups |-> 0, inits |-> 0, ret |-> "none", childInit |-> "none",
     steps |-> <<>>, usedDead |-> {}]

LifeInit ==
    /\ host = NewHost
    /\ r \in LifeRequests
    /\ config = LifeConfig
    /\ fs = IdleFileSystem
    /\ client = [remaining |-> r.contentLength]
    /\ pc = "host"
    /\ hdr = NoHeaders
    /\ Fresh
    /\ IdleMapper /\ IdleStorage /\ IdlePool

\* delete on a Hooks pointer: the object is destroyed (again, if it was already)
Delete(h, id) ==
    [h EXCEPT !.live = @ \ {id},
              !.dead = @ \cup {id},
              !.twice = IF id \in h.dead THEN @ \cup {id} ELSE @]

\* destroy_hooks: delete hooks, the pointer keeps its value
destroy_hooks(h) == IF h.hooks = 0 THEN h ELSE Delete(h, h.hooks)

\* the cleanups registered on pconf run, one after the other
RECURSIVE RunCleanups(_, _)
RunCleanups(h, n) == IF n = 0 THEN h ELSE RunCleanups(destroy_hooks(h), n - 1)

\* a member function is called through the pointer
Use(h, hook) ==
    IF h.hooks \in h.live THEN h ELSE [h EXCEPT !.usedDead = @ \cup {hook}]

\* where control is after a step that may have been undefined behaviour
\* (a second delete, a call on a destroyed object): on, or the process died
After(undefined, next) == IF undefined THEN {next, "crashed"} ELSE {next}

LifeFrame ==
    UNCHANGED <<r, config, fs, mapper, status, response, client, uploadData,
                session, sessLog, pool, cleanups, fault, hdr, lookup, mts,
                appPool, threads, events>>

\* init_module: the old object is deleted, a new one is made and the cleanup
\* registered; the pointer is cleared in the last catch clause only
InitModule(o) ==
    /\ pc = "host"
    /\ host.inits < MaxInits
    /\ LET h == IF host.hooks # 0 THEN Delete(host, host.hooks) ELSE host
           made == [h EXCEPT !.hooks = h.nextId, !.live = @ \cup {h.nextId},
                             !.nextId = @ + 1, !.cleanups = @ + 1,
                             !.inits = @ + 1, !.ret = "OK"]
           failed == [h EXCEPT !.inits = @ + 1, !.ret = "DECLINED"]
       IN  /\ host' = CASE o = "ok" -> made
                        [] o = "exception" -> [failed EXCEPT !.hooks = 0]
                        [] OTHER -> failed
           /\ pc' \in After(h.twice # host.twice, "host")
    /\ LifeFrame

\* pconf is cleared: the registered cleanups run; a module loaded as a shared
\* object is unloaded after them and starts again with hooks = NULL
DestroyPconf(dso) ==
    /\ pc = "host"
    /\ host.cleanups > 0
    /\ LET h == RunCleanups(host, host.cleanups)
       IN  /\ host' = [h EXCEPT !.cleanups = 0, !.hooks = IF dso THEN 0 ELSE @]
           /\ pc' \in After(h.twice # host.twice, "host")
    /\ LifeFrame

\* init_child, and Hooks::initChild: the calls made before an interruption
\* stay, any other exception aborts the process
InitChild ==
    /\ pc = "host"
    /\ host.inits > 0
    /\ IF host.hooks = 0
       THEN /\ host' = [host EXCEPT !.childInit = "skipped"]
            /\ pc' = "child"
       ELSE \E n \in 0..Len(PoolSetup), o \in {"ok", "thread_interrupted", "exception"} :
              /\ o = "ok" <=> n = Len(PoolSetup)
              /\ host' = [Use(host, "init_child") EXCEPT
                             !.steps = SubSeq(PoolSetup, 1, n),
                             !.childInit = IF o = "ok" THEN "done" ELSE o]
              /\ pc' \in IF o = "exception" THEN {"aborted"}
                         ELSE After(host.hooks \notin host.live, "child")
    /\ LifeFrame

\* map_to_storage, and Hooks::mapToStorage
MapToStorageHook ==
    /\ pc = "child"
    /\ ~mts.done
    /\ IF host.hooks = 0
       THEN /\ mts' = [done |-> TRUE, ret |-> "DECLINED", forward |-> "no"]
            /\ UNCHANGED <<r, host>>
            /\ pc' = "child"
       ELSE /\ LET m == mapToStorage(r, config, fs)
               IN  /\ mts' = [done |-> TRUE, ret |-> m.ret, forward |-> m.forward]
                   /\ r' = [r EXCEPT !.filename = m.filename]
            /\ host' = Use(host, "map_to_storage")
            /\ pc' \in After(host.hooks \notin host.live, "child")
    /\ UNCHANGED <<config, fs, mapper, status, response, client, uploadData,
                   session, sessLog, pool, cleanups, fault, hdr, lookup,
                   appPool, threads, events>>

\* handle_request: DECLINED without a Hooks object, else Hooks::handleRequest
HandleRequestHook ==
    /\ pc = "child"
    /\ IF host.hooks = 0
       THEN /\ pc' = "returned"
            /\ status' = "DECLINED"
            /\ UNCHANGED host
       ELSE /\ host' = Use(host, "handle_request")
            /\ pc' \in After(host.hooks \notin host.live, "classify")
            /\ UNCHANGED status
    /\ UNCHANGED <<r, config, fs, mapper, response, client, uploadData,
                   session, sessLog, pool, cleanups, fault, hdr, lookup, mts,
                   appPool, threads, events>>

LifeNext ==
    \/ \E o \in InitOutcomes : InitModule(o)
    \/ \E dso \in BOOLEAN : DestroyPconf(dso)
    \/ InitChild
    \/ MapToStorageHook
    \/ HandleRequestHook
    \/ Next

LifeSpec == LifeInit /\ [][LifeNext]_vars

-----------------------------------------------------------------------------
(* DirectoryMapper::getBaseURI with several base URIs of one type *)

OrderBases ==
    {<<"/">>, <<"/", "a">>, <<"/", "a", "/", "b">>, <<"/", "a", "b">>,
     <<"/", "a", "/">>, <<".">>}

OrderURIs ==
    {<<"/">>, <<"/", "a">>, <<"/", "a", "/">>, <<"/", "a", "/", "b">>,
     <<"/", "a", "/", "b", "/", "a">>, <<"/", "a", "b">>, <<"/", "a", "/", "/">>,
     <<"/", "b">>}

OrderRequests ==
    [uri : OrderURIs,
     filename : {"set"},
     docRoot : {<<"/", "w">>},
     contentLength : {0},
     setupStatus : {"OK"},
     method : {"M_GET"}]

OrderConfigs ==
    [railsBaseURIs : SUBSET OrderBases,
     rackBaseURIs : {{}, {<<"/">>}, {<<"/", "a">>, <<"/", "a", "/", "b">>}},
     autoDetectRails : {"DISABLED"},
     autoDetectRack : {"DISABLED"},
     autoDetectWSGI : {"DISABLED"},
     allowModRewrite : {"UNSET"},
     defaultUser : {"NULL"},
     railsEnv : {"NULL"},
     rackEnv : {"NULL"},
     spawnMethod : {"SM_UNSET"}]

OrderInit ==
    /\ r \in OrderRequests
    /\ config \in OrderConfigs
    /\ fs = [markers |-> {}, probeError |-> "none", file |-> "no", html |-> "no"]
    /\ client = [remaining |-> 0]
    /\ pc = "mapper"
    /\ hdr = NoHeaders
    /\ Fresh
    /\ IdleMapper /\ IdleStorage /\ IdlePool /\ IdleHost

OrderSpec == OrderInit /\ [][ResolverNext]_vars

-----------------------------------------------------------------------------
(* Properties *)

Over == pc \in {"returned", "finished"}

Count(log, call) == Cardinality({i \in 1..Len(log) : log[i] = call})

BigUpload == ap_should_client_block(r) /\ r.contentLength > UPLOAD_ACCELERATION_THRESHOLD

\* C1: when a body is expected and Content-Length exceeds 8192, get() is only
\* called once the whole body was read from the client into the TempFile: at
\* the call no advertised byte is unread and the file holds Content-Length bytes.
C1_UploadBeforeGet ==
    (BigUpload /\ pool.getCalls > 0) =>
        /\ pool.unreadAtGet = 0
        /\ uploadData.created = 1
        /\ uploadData.size = r.contentLength

C1_Witness ==
    /\ BigUpload
    /\ pool.getCalls = 1
    /\ pool.outcome = "session"
    /\ uploadData.size = UPLOAD_ACCELERATION_THRESHOLD + 1

\* C2: every session get() returned is released in the end: a session still
\* open when handleRequest has returned is held by a Container registered on a
\* request pool not yet destroyed (so no failed request keeps one), and every
\* open session is eventually closed.
C2_SessionReleased ==
    /\ [](Over /\ session.state = "open" =>
             /\ status = "OK"
             /\ session.container
             /\ cleanups.registered
             /\ ~cleanups.poolDestroyed)
    /\ [](pool.outcome = "session" => session.state # "none")
    /\ ((session.state = "open") ~> (session.state = "closed"))

C2_Witness ==
    /\ pc = "finished"
    /\ pool.outcome = "session"
    /\ cleanups.registered
    /\ session.state = "closed"

\* C3: when get() throws BusyException the request is answered 503 with the
\* busy message, no session is held, and no header or body went to a worker.
C3_Busy ==
    pool.outcome = "BusyException" =>
        /\ Over
        /\ status = "HTTP_SERVICE_UNAVAILABLE"
        /\ response.custom = "This website is too busy right now.  Please try again later."
        /\ session = NoSession
        /\ sessLog = <<>>
        /\ hdr.buffer = <<>>

C3_Witness == pc = "finished" /\ pool.outcome = "BusyException"

\* C4: when get() throws SpawnException, an error page is written verbatim as
\* text/html with status OK; without an error page the answer is 500. Either
\* way no session is held and nothing went to a worker.
C4_SpawnError ==
    /\ pool.outcome = "SpawnException_page" =>
           /\ status = "OK"
           /\ response.contentType = "text/html; charset=utf-8"
           /\ response.body = <<"errorPage">>
    /\ pool.outcome = "SpawnException" => status = "HTTP_INTERNAL_SERVER_ERROR"
    /\ pool.outcome \in {"SpawnException_page", "SpawnException"} =>
           /\ Over
           /\ session = NoSession
           /\ sessLog = <<>>
           /\ hdr.buffer = <<>>

C4_Witness ==
    /\ pc = "finished"
    /\ pool.outcome = "SpawnException_page"
    /\ response.body = <<"errorPage">>

\* C5: a filesystem error met while the resolver probes the document root is
\* answered 500 with the diagnostic (and the hint on EPERM), never leaves
\* handleRequest, and the pool is not touched.
C5_FilesystemErrorReported ==
    fault.phase = "classify" =>
        /\ Over
        /\ status = "HTTP_INTERNAL_SERVER_ERROR"
        /\ response.body = reportFileSystemError(fault.kind).body
        /\ pool.getCalls = 0

\* the request is an application request, handleRequest did not decline it,
\* and its document root is unknown
DocumentRootUnknown ==
    /\ pc \notin {"classify", "publicDir"}
    /\ mapper.baseURI # NULL
    /\ status # "DECLINED"
    /\ status # "escaped"
    /\ r.docRoot = <<>>

\* C6 as stated: an application request whose public directory is empty is
\* answered 500 with a diagnostic, the body is not read and get() is not called.
C6_DocumentRoot500 ==
    DocumentRootUnknown =>
        /\ status = "HTTP_INTERNAL_SERVER_ERROR"
        /\ response.body = reportDocumentRootDeterminationError.body
        /\ client.remaining = r.contentLength
        /\ pool.getCalls = 0

\* C6 amended: an application request whose public directory is empty is
\* answered with status OK and the "Passenger error #1" page as text/html; the
\* body is not read, no TempFile is made and get() is not called.
C6_DocumentRootReported ==
    DocumentRootUnknown =>
        /\ Over
        /\ status = "OK"
        /\ response.contentType = "text/html; charset=UTF-8"
        /\ response.body = <<"<h1>Passenger error #1</h1>",
                             "Cannot determine the document root for the current request.">>
        /\ client.remaining = r.contentLength
        /\ uploadData.created = 0
        /\ pool.getCalls = 0

C6_Witness ==
    /\ pc = "finished"
    /\ DocumentRootUnknown
    /\ r.contentLength > 0

\* C7: a session I/O error or timeout in any phase after get() (timeouts,
\* headers, body, half-close, reading and relaying the response) is answered 500.
C7_SessionFault500 ==
    (Over /\ fault.phase \in {"timeouts", "sendHeaders", "sendBody",
                              "shutdownWriter", "relay"}) =>
        status = "HTTP_INTERNAL_SERVER_ERROR"

\* C8: no retry inside a request: get() is called at most once, the headers are
\* sent at most once, no more body bytes are sent than the request has, and
\* once an error was met the pool is not called and nothing more is sent.
C8_NoRetry ==
    /\ [](/\ pool.getCalls <= 1
          /\ Count(sessLog, "sendHeaders") <= 1
          /\ session.fromFile + session.fromClient <= r.contentLength)
    /\ [][fault.phase # "none" =>
            /\ pool' = pool
            /\ hdr' = hdr
            /\ Count(sessLog', "sendHeaders") = Count(sessLog, "sendHeaders")
            /\ Count(sessLog', "sendBodyBlock") = Count(sessLog, "sendBodyBlock")]_vars

C8_Witness ==
    /\ pc = "finished"
    /\ pool.getCalls = 1
    /\ fault.phase = "get"
    /\ fault.kind = "BusyException"

Phase(call) ==
    CASE call = "setReaderTimeout" -> 1
      [] call = "setWriterTimeout" -> 2
      [] call = "sendHeaders" -> 3
      [] call = "sendBodyBlock" -> 4
      [] call = "shutdownWriter" -> 5
      [] call = "getStream" -> 6
      [] OTHER -> 7

SentinelPair == <<<<"_">>, <<"_">>>>

\* C10: the payload of any table of (key, value) pairs, values possibly empty,
\* split on NUL with trailing empty fields dropped, has an even number of
\* fields, which are the pairs of the table followed by the dummy pair.
C10_HeaderRoundTrip ==
    hdr.step = "parsed" =>
        /\ Len(hdr.fields) % 2 = 0
        /\ FieldPairs(hdr.fields) = Append(hdr.pairs, SentinelPair)

C10_Witness ==
    /\ hdr.step = "parsed"
    /\ Len(hdr.pairs) = MaxPairs
    /\ hdr.pairs[Len(hdr.pairs)][2] = <<>>
    /\ Len(hdr.fields) = 2 * MaxPairs + 2

-----------------------------------------------------------------------------
(* Properties of the DirectoryMapper *)

\* the configured bases of one list that match the request URI, as the
\* resolver is described: equal, or a prefix followed by "/", or "/" itself
Matching(bases) ==
    {b \in bases :
        \/ b = Slash
        \/ b = r.uri
        \/ (Len(r.uri) > Len(b) /\ SubSeq(r.uri, 1, Len(b) + 1) = b \o Slash)}

\* first in the order of the std::set
Least(ms) == CHOOSE b \in ms : \A c \in ms \ {b} : StrLess(b, c)

\* the types auto-detection may answer, given the flags and the document root
Detectable ==
    {t \in fs.markers :
        \/ (t = "RAILS" /\ config.autoDetectRails \in {"ENABLED", "UNSET"})
        \/ (t = "RACK" /\ config.autoDetectRack \in {"ENABLED", "UNSET"})
        \/ (t = "WSGI" /\ config.autoDetectWSGI \in {"ENABLED", "UNSET"})}

Preferred(ts) ==
    IF "RAILS" \in ts THEN "RAILS" ELSE IF "RACK" \in ts THEN "RACK" ELSE "WSGI"

\* what the precedence rule says getBaseURI answers: base URI and type
Precedence ==
    IF Matching(config.railsBaseURIs) # {}
    THEN lookup.threw = "none" /\ lookup.ret = Least(Matching(config.railsBaseURIs))
         /\ mapper.appType = "RAILS"
    ELSE IF Matching(config.rackBaseURIs) # {}
    THEN lookup.threw = "none" /\ lookup.ret = Least(Matching(config.rackBaseURIs))
         /\ mapper.appType = "RACK"
    ELSE IF fs.probeError # "none" THEN TRUE
    ELSE IF Detectable # {}
    THEN lookup.threw = "none" /\ lookup.ret = Slash
         /\ mapper.appType = Preferred(Detectable)
    ELSE lookup.threw = "none" /\ lookup.ret = NULL /\ mapper.appType = "NONE"

BeginsWithSlash == Len(r.uri) > 0 /\ r.uri[1] = "/"

\* C11 as stated: for every request URI, getBaseURI answers the first matching
\* Rails base, else the first matching Rack base, else "/" with the type
\* auto-detection finds (Rails, Rack, WSGI, each if enabled or unset), else no
\* application.
C11_PrecedenceAnyURI ==
    lookup.op = "getBaseURI" => Precedence

\* C11, amended: the precedence rule holds for request URIs that begin with
\* "/"; for an empty URI or one that does not begin with "/", getBaseURI
\* answers no application whatever is configured or detectable.
C11_ResolverPrecedence ==
    lookup.op = "getBaseURI" =>
        IF BeginsWithSlash THEN Precedence
        ELSE lookup.threw = "none" /\ lookup.ret = NULL /\ mapper.appType = "NONE"

\* a URI under a Rails base and a Rack base at once resolved to the Rails one,
\* with a document root auto-detection would have taken too
C11_Witness ==
    /\ lookup.op = "getBaseURI"
    /\ Matching(config.railsBaseURIs) # {}
    /\ Matching(config.rackBaseURIs) # {}
    /\ Least(Matching(config.railsBaseURIs)) # Least(Matching(config.rackBaseURIs))
    /\ Detectable # {}
    /\ lookup.ret = <<"/", "a">>
    /\ r.uri = <<"/", "a", "/", "b">>

\* C15: getPublicDirectory answers the document root without one trailing
\* slash (if it has one), followed by the base URI iff the base URI is not
\* "/"; it answers the empty string when no base URI resolves or the document
\* root is empty.
C15_PublicDirectory ==
    (lookup.op = "getPublicDirectory" /\ lookup.threw = "none") =>
        LET d == r.docRoot
            base == mapper.baseURI
            keep == IF Len(d) > 0 /\ d[Len(d)] = "/" THEN Len(d) - 1 ELSE Len(d)
            more == IF base = Slash THEN 0 ELSE Len(base)
        IN  IF base = NULL \/ Len(d) = 0 THEN lookup.ret = <<>>
            ELSE /\ Len(lookup.ret) = keep + more
                 /\ \A i \in 1..keep : lookup.ret[i] = d[i]
                 /\ \A i \in 1..more : lookup.ret[keep + i] = base[i]

\* a document root ending in two slashes under a base URI other than "/"
C15_Witness ==
    /\ lookup.op = "getPublicDirectory"
    /\ r.docRoot = <<"/", "w", "/", "/">>
    /\ mapper.baseURI = <<"/", "a">>
    /\ lookup.ret = <<"/", "w", "/", "/", "a">>

-----------------------------------------------------------------------------
(* Properties of handleRequest, continued *)

\* C13: once the resolver has answered that the request is not for an
\* application, handleRequest has declined: nothing of the body was read, no
\* TempFile was created, and ApplicationPool.get was not called; get is only
\* ever called for a request the resolver mapped to an application.
C13_NotForApplicationDeclines ==
    /\ (mapper.baseURIKnown /\ mapper.baseURI = NULL) =>
          /\ Over /\ status = "DECLINED"
          /\ client.remaining = r.contentLength
          /\ uploadData.created = 0
          /\ pool.getCalls = 0
    /\ pool.getCalls > 0 => (mapper.baseURIKnown /\ mapper.baseURI # NULL)

\* a large upload to a path that is no file and belongs to no application
C13_Witness ==
    /\ pc = "finished" /\ status = "DECLINED"
    /\ mapper.baseURIKnown /\ mapper.baseURI = NULL
    /\ r.filename = "set" /\ fs.file = "no"
    /\ r.contentLength > UPLOAD_ACCELERATION_THRESHOLD

\* C14: a thread interruption raised in the request path of handleRequest
\* ends the request with HTTP 500 and does not leave handleRequest; whatever
\* closing the session throws inside Container::cleanup (an interruption or
\* another exception) is swallowed, and the cleanup reports success.
C14_InterruptionHandled ==
    /\ (fault.kind = "thread_interrupted" /\ pc # "classify") =>
          (Over /\ status = "HTTP_INTERNAL_SERVER_ERROR")
    /\ (cleanups.registered /\ cleanups.poolDestroyed) =>
          (cleanups.result = "APR_SUCCESS" /\ pc = "finished")

\* closing the session was interrupted while r->pool was destroyed
C14_Witness ==
    /\ pc = "finished"
    /\ status = "OK"
    /\ cleanups.registered /\ cleanups.poolDestroyed
    /\ cleanups.thrown = "thread_interrupted"
    /\ cleanups.result = "APR_SUCCESS"
    /\ session.state = "closed"

\* the request path: a session operation was interrupted, answered with 500
C14_RequestPathWitness ==
    /\ pc = "finished"
    /\ fault.kind = "thread_interrupted"
    /\ fault.phase # "get"
    /\ status = "HTTP_INTERNAL_SERVER_ERROR"

-----------------------------------------------------------------------------
(* Properties of mapToStorage followed by handleRequest *)

\* both hooks have looked at the request, and handleRequest resolved it to an
\* application
MappedToApplication ==
    /\ mts.done /\ pc # "classify"
    /\ mapper.baseURIKnown /\ mapper.baseURI # NULL

\* handleRequest went on past its first test
Proceeds == status # "DECLINED" /\ fault.phase \notin {"classify", "fileExists"}

-----------------------------------------------------------------------------
(* Properties of the ApplicationPool *)

\* C16 as stated: at every time the pool holds at most maxPool workers and at
\* most maxPerApp workers of each key, also after a cap was lowered below the
\* current number of workers.
C16_CapInvariant ==
    pc = "pool" =>
        /\ Total(appPool) <= appPool.maxPool
        /\ \A k \in Keys : PerKey(appPool, k) <= appPool.maxPerApp

\* C16, amended: no step raises a count above its cap.  The total exceeds
\* maxPool (the count of a key exceeds maxPerApp) only from the moment setMax
\* (setMaxPerApp) lowered the cap below the count, and for as long as it does
\* it never grows; so the counts stay within the caps as long as no cap is
\* lowered below them.
C16_CapsBoundAdmission ==
    [][pc = "pool" =>
        /\ Total(appPool') > appPool'.maxPool =>
              /\ Total(appPool') <= Total(appPool)
              /\ (Total(appPool) > appPool.maxPool
                  \/ appPool'.maxPool < appPool.maxPool)
        /\ \A k \in Keys :
              PerKey(appPool', k) > appPool'.maxPerApp =>
                  /\ PerKey(appPool', k) <= PerKey(appPool, k)
                  /\ (PerKey(appPool, k) > appPool.maxPerApp
                      \/ appPool'.maxPerApp < appPool.maxPerApp)]_vars

\* both caps were lowered to 1 while two workers of one key are in use
C16_Witness ==
    /\ pc = "pool"
    /\ appPool.maxPool = 1 /\ appPool.maxPerApp = 1
    /\ Total(appPool) = 2
    /\ \A w \in appPool.workers : w.key = "A" /\ w.sessions = 1
    /\ threads["t1"].state = "holding" /\ threads["t2"].state = "holding"

\* the threads whose live Session refers to a worker
Holders(id) == {t \in Threads : threads[t].state = "holding" /\ threads[t].worker = id}

\* C17: every worker of the pool has sessions 0 or 1, sessions is 1 exactly
\* when one live Session refers to the worker, and no two callers hold a
\* session on the same worker.
C17_OneSessionPerWorker ==
    pc = "pool" =>
        /\ \A w \in appPool.workers :
              /\ w.sessions \in {0, 1}
              /\ w.sessions = Cardinality(Holders(w.id))
        /\ \A t \in Threads, u \in Threads :
              (t # u /\ threads[t].state = "holding" /\ threads[u].state = "holding")
                  => threads[t].worker # threads[u].worker

\* a second caller waits for the only worker of the key, which was used
\* before and is in use again
C17_Witness ==
    /\ pc = "pool"
    /\ \E w \in appPool.workers :
          /\ w.sessions = 1 /\ w.lastUsedAt >= 3
          /\ Holders(w.id) = {"t2"}
    /\ threads["t1"].state = "waiting"
    /\ threads["t1"].key = threads["t2"].key

\* the workers of the pool that a step removes
Gone == {w \in appPool.workers : \A v \in appPool'.workers : v.id # w.id}

\* the pool holds two idle workers, of key A and of key B, A used before B,
\* and no spawn is in flight
UsedInOrderAB ==
    \E a \in Idle(appPool), b \in Idle(appPool) :
        /\ appPool.workers = {a, b}
        /\ appPool.spawning = {}
        /\ a.key = "A" /\ b.key = "B"
        /\ a.lastUsedAt < b.lastUsedAt

\* C20: a step of get that evicts for the global cap removes idle workers
\* only, and every idle worker it leaves was used later than every worker it
\* removes, whatever the keys; with maxPool = 2, idle workers of A and B used
\* in this order, and a request for C, the pool afterwards holds B and C.
C20_EvictionIsLRU ==
    [][(pc = "pool" /\ events'.evictions # events.evictions
            /\ appPool'.restartStamp = appPool.restartStamp) =>
        /\ Gone # {}
        /\ Gone \subseteq Idle(appPool)
        /\ \A w \in Gone : \A v \in Idle(appPool) \ Gone : w.lastUsedAt < v.lastUsedAt
        /\ (appPool.maxPool = 2 /\ UsedInOrderAB
                /\ \E t \in Threads : threads'[t].key = "C" /\ threads[t].key # "C")
              => {w.key : w \in appPool'.workers} = {"B", "C"}]_vars

\* A, B and C were used in this order under maxPool = 2: A was evicted, B is
\* idle, C is in use
C20_Witness ==
    /\ pc = "pool"
    /\ appPool.maxPool = 2
    /\ events.evictions = 1
    /\ \E b \in appPool.workers, c \in appPool.workers :
          /\ appPool.workers = {b, c}
          /\ b.key = "B" /\ b.id = 2 /\ b.sessions = 0 /\ b.lastUsedAt = 4
          /\ c.key = "C" /\ c.id = 3 /\ c.sessions = 1

\* the spawn requests issued so far: every one takes the next worker id
SpawnRequests == appPool.nextId - 1

\* C18: threads call get concurrently for one key on an empty pool with
\* maxPerApp = 1.  In every interleaving one spawn request is issued, by the
\* first caller; the others wait, and every session is on that one worker,
\* one caller at a time.
C18_SpawnCoalescing ==
    pc = "pool" =>
        /\ SpawnRequests <= 1
        /\ (\E t \in Threads : threads[t].state # "out") => SpawnRequests = 1
        /\ \A t \in Threads :
              threads[t].state \in {"spawning", "holding"} => threads[t].worker = 1
        /\ Cardinality({t \in Threads :
                           threads[t].state \in {"spawning", "holding"}}) <= 1
        /\ \A t \in Threads : threads[t].result \in {"none", "session"}

\* the worker serves its second caller while the third still waits
C18_Witness ==
    /\ pc = "pool"
    /\ SpawnRequests = 1
    /\ \E w \in appPool.workers : w.id = 1 /\ w.sessions = 1 /\ w.lastUsedAt = 3
    /\ Cardinality({t \in Threads : threads[t].state = "holding"}) = 1
    /\ Cardinality({t \in Threads : threads[t].state = "waiting"}) = 1
    /\ Len(appPool.waitq) = 1

\* C19: restart.txt of a key was touched once.  The workers of the key are
\* retired by the restart check exactly once, by the first get for the key
\* after the touch, and not again by later gets; every worker the pool holds
\* for the key after that get was spawned after the restart; and when that
\* first get, the only one served since the touch, has returned its session,
\* the pool holds exactly one worker for the key, the fresh one the session
\* is on.
C19_RestartOnce ==
    pc = "pool" =>
      \A k \in Keys :
        /\ appPool.restartFile[k] = 0 => events.restarts[k] = 0
        /\ appPool.restartFile[k] = 1 =>
              /\ events.restarts[k] = IF events.sinceTouch[k] >= 1 THEN 1 ELSE 0
              /\ events.sinceTouch[k] >= 1 =>
                    \A w \in appPool.workers : w.key = k => w.generation = 1
              /\ \A t \in Threads :
                    (events.sinceTouch[k] = 1 /\ events.first[k] = t
                         /\ events.served[k] = 1
                         /\ threads[t].state = "holding" /\ threads[t].key = k)
                      => /\ {w \in appPool.workers : w.key = k} = Held(t)
                         /\ Cardinality(Held(t)) = 1

\* after the touch the pre-restart worker (id 1) is gone, and the worker
\* spawned by the first get (id 2) serves the second get as well
C19_Witness ==
    /\ pc = "pool"
    /\ appPool.restartFile["A"] = 1
    /\ events.restarts["A"] = 1
    /\ events.sinceTouch["A"] = 2
    /\ \E w \in appPool.workers :
          /\ {v \in appPool.workers : v.key = "A"} = {w}
          /\ w.id = 2 /\ w.generation = 1 /\ w.sessions = 1 /\ w.lastUsedAt = 5

\* the workers of a pool that no session uses and that are not being spawned
Unused(p) == {w \in p.workers : w.sessions = 0 /\ ~w.spawning}

\* C21 as claimed: a get fails with BusyError exactly when the pool holds
\* maxPool workers or more and none of them is idle, and then the workers of
\* the pool are the ones it had before the call.
C21_BusyIffSaturated ==
    pc = "pool" =>
      \A k \in Keys :
        LET d == Admit(RestartCheck(appPool, k), k)
        IN  /\ d.outcome = "BusyError" <=>
                  (/\ Cardinality(appPool.workers) >= appPool.maxPool
                   /\ Unused(appPool) = {})
            /\ d.outcome = "BusyError" => d.pool.workers = appPool.workers

\* C21: a get for a key fails with BusyError exactly when, after the restart
\* check of that get, the key has no idle worker and is below its per-key cap,
\* the pool holds maxPool workers or more, and evicting every idle worker would
\* not bring it below maxPool.  The failed get spawns, evicts and marks busy
\* nothing: it leaves the pool as the restart check left it.
C21_BusyWhenNoRoom ==
    pc = "pool" =>
      \A k \in Keys :
        LET p == RestartCheck(appPool, k)
            d == Admit(p, k)
            ofKey == {w \in p.workers : w.key = k}
        IN  /\ d.outcome = "BusyError" <=>
                  (/\ ofKey \cap Unused(p) = {}
                   /\ Cardinality(ofKey) < p.maxPerApp
                   /\ Cardinality(p.workers) >= p.maxPool
                   /\ Cardinality(p.workers) - Cardinality(Unused(p)) >= p.maxPool)
            /\ d.outcome = "BusyError" => (d.pool = p /\ d.evicted = {})

\* maxPool = 1 and its one worker busy for A: t2 asked for B, got BusyError,
\* and the pool still holds that one worker, busy
C21_Witness ==
    /\ pc = "pool"
    /\ appPool.maxPool = 1
    /\ threads["t1"].state = "holding" /\ threads["t1"].key = "A"
    /\ threads["t2"] = Outside("BusyError")
    /\ Admit(RestartCheck(appPool, "B"), "B").outcome = "BusyError"
    /\ \E w \in appPool.workers :
          /\ appPool.workers = {w}
          /\ w.key = "A" /\ w.sessions = 1 /\ w.id = 1
    /\ appPool.nextId = 2

-----------------------------------------------------------------------------
(* Properties of the upload buffering *)

\* handleRequest has passed the test that decides on the TempFile
UploadDecided ==
    pc \in {"receive", "acquire"} \/ pool.getCalls > 0 \/ fault.phase = "receive"

\* C22: a TempFile is made if and only if a body is expected and
\* Content-Length is above 8192.  A body of 8192 bytes or less gets no TempFile
\* and is read from the client only once get() has returned the session and
\* the headers were sent, each block read going to sendBodyBlock.  When a
\* TempFile was made the client was read to the end before get(), and every
\* body byte the worker gets comes from the file.
C22_UploadThreshold ==
    /\ uploadData.created <= 1
    /\ uploadData.created = 1 =>
          (ap_should_client_block(r) /\ r.contentLength > UPLOAD_ACCELERATION_THRESHOLD)
    /\ (UploadDecided /\ ap_should_client_block(r)
            /\ r.contentLength > UPLOAD_ACCELERATION_THRESHOLD) =>
          uploadData.created = 1
    /\ (ap_should_client_block(r) /\ r.contentLength <= UPLOAD_ACCELERATION_THRESHOLD) =>
          /\ uploadData = NoUpload
          /\ session.fromFile = 0
          /\ session.fromClient <= r.contentLength - client.remaining
          /\ client.remaining < r.contentLength =>
                /\ pool.outcome = "session"
                /\ Count(sessLog, "sendHeaders") = 1
                /\ Count(sessLog, "sendBodyBlock") >= 1
          /\ fault.phase = "none" =>
                session.fromClient = r.contentLength - client.remaining
    /\ uploadData.created = 1 =>
          /\ session.fromClient = 0
          /\ session.fromFile <= uploadData.size
          /\ pool.getCalls > 0 => pool.unreadAtGet = 0
          /\ (fault.phase = "none" /\ pc \in {"shutdownWriter", "relay", "register"}) =>
                session.fromFile = r.contentLength

\* a body of exactly 8192 bytes went from the client to the worker, without a file
C22_Witness ==
    /\ pc = "finished"
    /\ r.contentLength = UPLOAD_ACCELERATION_THRESHOLD
    /\ status = "OK"
    /\ uploadData.created = 0
    /\ session.fromClient = UPLOAD_ACCELERATION_THRESHOLD
    /\ Count(sessLog, "sendBodyBlock") = 1

\* C23: a TempFile made for the upload is deleted, once, no later than the
\* return of handleRequest, whatever the path: before shutdownWriter when the
\* body was forwarded, and at the return when receiving the body failed, when
\* get() threw, or when a call on the session failed.
C23_TempFileDeleted ==
    /\ uploadData.deleted <= uploadData.created
    /\ uploadData.ptr <=> uploadData.deleted < uploadData.created
    /\ Over => uploadData.deleted = uploadData.created
    /\ pc \in {"shutdownWriter", "relay", "register"} =>
          /\ uploadData.deleted = uploadData.created
          /\ uploadData.created = 1 => session.fromFile = r.contentLength
    /\ (uploadData.created = 1
            /\ fault.phase \in {"receive", "get", "timeouts", "sendHeaders",
                                "sendBody", "shutdownWriter"}) =>
          (Over /\ uploadData.deleted = 1)

\* the file held the whole body when get() threw BusyException; it is gone
\* when handleRequest has returned
C23_Witness ==
    /\ pc = "returned"
    /\ status = "HTTP_SERVICE_UNAVAILABLE"
    /\ uploadData.created = 1
    /\ uploadData.size = UPLOAD_ACCELERATION_THRESHOLD + 1
    /\ uploadData.deleted = 1
    /\ ~uploadData.ptr

-----------------------------------------------------------------------------
(* Properties of the arguments of get() *)

-----------------------------------------------------------------------------
(* Properties of the module lifecycle *)

\* C25: whatever init_module calls (that succeed or fail, with any exception)
\* and destroy_hooks cleanups have run, the pointer hooks is NULL or points to
\* a live Hooks object, no Hooks object was destroyed twice, and init_child,
\* handle_request and map_to_storage did not run on a destroyed object.
C25_HooksPointerSound ==
    /\ host.hooks = 0 \/ host.hooks \in host.live
    /\ host.twice = {}
    /\ host.usedDead = {}

\* C26: when handleRequest calls get(), initChild has made all of connect,
\* detach, setMax, setMaxPerApp and setMaxIdleTime, in that order, in this
\* process, also when it was interrupted.
C26_PoolReadyAtGet ==
    pool.getCalls > 0 => pool.ready = PoolSetup

-----------------------------------------------------------------------------
(* Properties of the mapper's memory *)

\* what the four getters answer from a mapper that knows its base URI
Remembered(op) ==
    CASE op = "getBaseURI" -> mapper.baseURI
      [] op = "getPublicDirectory" ->
             (IF mapper.baseURI = NULL THEN <<>>
              ELSE PublicPath(r.docRoot, mapper.baseURI))
      [] op = "getApplicationType" -> mapper.appType
      [] OTHER -> (CASE mapper.appType = "RAILS" -> "rails"
                     [] mapper.appType = "RACK" -> "rack"
                     [] mapper.appType = "WSGI" -> "wsgi"
                     [] OTHER -> "NULL")

\* C27: a getter that returned leaves the base URI known.  From then on the
\* application type is NONE exactly when the base URI is NULL, otherwise RAILS,
\* RACK or WSGI; the mapper does not change any more; and every getter
\* answers from what the mapper remembers, whatever the filesystem would now
\* say, even if probing it would fail.
C27_MapperConsistent ==
    /\ [](pc = "mapper" =>
            /\ (lookup.calls > 0 /\ lookup.threw = "none") => mapper.baseURIKnown
            /\ mapper.baseURIKnown =>
                  /\ mapper.appType = "NONE" <=> mapper.baseURI = NULL
                  /\ mapper.appType \in {"NONE", "RAILS", "RACK", "WSGI"}
                  /\ lookup.ret = Remembered(lookup.op)
                  /\ \A f \in ResolverFileSystems :
                        /\ getBaseURI(mapper, r, config, f)
                               = Answer(mapper, Remembered("getBaseURI"), "none")
                        /\ getPublicDirectory(mapper, r, config, f)
                               = Answer(mapper, Remembered("getPublicDirectory"), "none")
                        /\ getApplicationType(mapper, r, config, f)
                               = Answer(mapper, Remembered("getApplicationType"), "none")
                        /\ getApplicationTypeString(mapper, r, config, f)
                               = Answer(mapper, Remembered("getApplicationTypeString"), "none"))
    /\ [][(pc = "mapper" /\ mapper.baseURIKnown) =>
            /\ mapper' = mapper
            /\ lookup'.threw = "none"
            /\ lookup'.op = lookup.op => lookup'.ret = lookup.ret]_vars

\* a second call on a mapper that found a WSGI application by auto-detection
C27_Witness ==
    /\ pc = "mapper"
    /\ lookup.calls = 2
    /\ lookup.op = "getApplicationTypeString"
    /\ lookup.ret = "wsgi"
    /\ mapper = [baseURIKnown |-> TRUE, baseURI |-> Slash, appType |-> "WSGI"]
    /\ r.docRoot = <<"/", "w", "/">>

\* C28: when buffering the upload fails (the client read reports an error,
\* fwrite writes nothing, or fewer or more bytes than Content-Length were
\* buffered), handleRequest returns 500, get() was never called and no session
\* exists; and get() is not reached with a file that does not hold
\* Content-Length bytes.
C28_FailedUploadNoGet ==
    /\ fault.phase = "receive" =>
          /\ fault.kind \in {"client", "fwrite", "incomplete"}
          /\ Over
          /\ status = "HTTP_INTERNAL_SERVER_ERROR"
          /\ pool.getCalls = 0
          /\ session = NoSession
          /\ sessLog = <<>>
    /\ (uploadData.created = 1 /\ uploadData.size # r.contentLength
            /\ pc \notin {"receive"}) =>
          (fault.phase = "receive" /\ pool.getCalls = 0)

\* the client stopped before it had sent the advertised bytes
C28_Witness ==
    /\ pc = "returned"
    /\ fault = [phase |-> "receive", kind |-> "incomplete"]
    /\ status = "HTTP_INTERNAL_SERVER_ERROR"
    /\ r.contentLength = BUF_SIZE + BUF_SIZE
    /\ uploadData.size = BUF_SIZE
    /\ client.remaining = BUF_SIZE
    /\ pool.getCalls = 0

\* C29: for one request with an unchanged filesystem, when mapToStorage decided
\* not to forward the request (no base URI, the file exists, the page cache
\* file exists and became r->filename, or a filesystem error was caught), the
\* handleRequest that follows never calls ApplicationPool.get and returns
\* DECLINED.
C29_HooksAgree ==
    (mts.done /\ mts.forward \in {"no", "threw"}) =>
        /\ pool.getCalls = 0
        /\ pc \in {"mapToStorage", "classify"} \/ (Over /\ status = "DECLINED")

\* the bases of one list whose test in getBaseURI succeeds on the request URI
Candidates(bases) == {b \in bases : BaseMatches(r.uri, b)}

\* base c lies under base b: b is "/" or c continues b with a "/"
NestedUnder(c, b) == c # b /\ BaseMatches(c, b)

\* the list (Rails or Rack) from which getBaseURI answered
ListOf(type) ==
    IF type = "RAILS" THEN config.railsBaseURIs
    ELSE IF type = "RACK" THEN config.rackBaseURIs ELSE {}

\* C30: when several base URIs of one type match the request URI, getBaseURI
\* returns the first of them in the sorted order of the set, which is the
\* shortest one; with "/" among the Rails base URIs every URI that begins
\* with "/" resolves to the Rails base "/" whatever else is configured; and a
\* base nested under another configured base of the same type is never
\* returned.
C30_SortedFirstIsShortest ==
    (lookup.op = "getBaseURI" /\ Len(r.uri) > 0 /\ r.uri[1] = "/") =>
        LET rails == Candidates(config.railsBaseURIs)
            rack == Candidates(config.rackBaseURIs)
            ms == IF rails # {} THEN rails ELSE rack
        IN  /\ ms # {} =>
                /\ lookup.ret \in ms
                /\ mapper.appType = (IF rails # {} THEN "RAILS" ELSE "RACK")
                /\ \A c \in ms \ {lookup.ret} :
                      /\ StrLess(lookup.ret, c)
                      /\ Len(lookup.ret) < Len(c)
            /\ Slash \in config.railsBaseURIs =>
                  (lookup.ret = Slash /\ mapper.appType = "RAILS")
            /\ \A b \in ListOf(mapper.appType) : ~NestedUnder(lookup.ret, b)

\* "/a" is answered for "/a/b/a" although "/a/b" and "/a/" are configured
\* too and "." sorts before all of them
C30_Witness ==
    /\ lookup.op = "getBaseURI"
    /\ r.uri = <<"/", "a", "/", "b", "/", "a">>
    /\ config.railsBaseURIs =
          {<<".">>, <<"/", "a">>, <<"/", "a", "/", "b">>, <<"/", "a", "/">>}
    /\ lookup.ret = <<"/", "a">>
    /\ mapper.appType = "RAILS"

====
